---- MODULE Spec2Model ----
(***************************************************************************)
(* Verification model of code996: the work-time detection, the work /     *)
(* overtime classification, the 996 index, the project classifier, the    *)
(* timezone analyzer, the overtime analyzer and the team analysis.        *)
(*                                                                         *)
(* Conventions                                                             *)
(*  - Strings the code inspects character by character (the --hours        *)
(*    override, the bucket labels "09:30") are sequences of one-character  *)
(*    strings, so that split / parseFloat / parseInt are computed.         *)
(*  - Clock hours are fixed-point numbers in hundredths of an hour         *)
(*    (9.5 h = 950), exact for every value with at most two decimals.      *)
(*  - A JavaScript number that may be NaN is a record [nan, v].            *)
(***************************************************************************)
EXTENDS Integers, Sequences, FiniteSets, TLC

(* ------------------------------ bounds -------------------------------- *)

\* largest count put on the extra bucket of an hour series
MaxExtra == 1
\* largest weekday / weekend count of a day-of-week series
MaxDayCount == 1
\* largest normal-hour / overtime-hour count fed directly to the calculator
MaxCommits == 25
\* largest weekday / weekend count fed directly to the calculator
MaxWeek == 2
\* largest contributor count fed to the classifier
MaxContributors == 61
\* largest commit count of the second timezone offset
MaxMinorCommits == 2
\* largest per-hour count of the spread-out part of a timezone hour series
MaxSpread == 2

\* largest commit count of one (weekday, hour) cell of the day-hour statistics
MaxHourCount == 1

\* largest number of distinct active hours of a day
MaxActiveHours == 3

\* largest number of core contributors of a team
MaxUsers == 4

\* largest number of runs of analyzeTeam on the same records
MaxRuns == 2

\* dates in one batch handed to the WorkdayChecker
MaxDates == 2

\* commits in the log of one repository
MaxEvents == 2

\* tokens on the command line after the program name
MaxArgs == 2

\* repositories selected for a multi-repository analysis
MaxRepos == 3

(* --------------------------- JavaScript numbers ----------------------- *)

Num(v) == [nan |-> FALSE, v |-> v]

NaN == [nan |-> TRUE, v |-> 0]

Min2(a, b) == IF a <= b THEN a ELSE b

Max2(a, b) == IF a >= b THEN a ELSE b

\* a >= b on JavaScript numbers: false as soon as one side is NaN
Geq(a, b) == ~a.nan /\ ~b.nan /\ a.v >= b.v

(* ------------------------ strings as char sequences ------------------- *)

Digits == <<"0", "1", "2", "3", "4", "5", "6", "7", "8", "9">>

DigitValues == [c \in {Digits[i] : i \in 1..10} |-> (CHOOSE i \in 1..10 : Digits[i] = c) - 1]

IsDigit(c) == c \in DOMAIN DigitValues

DigitVal(c) == DigitValues[c]

Digit(n) == Digits[n + 1]

\* i.toString().padStart(2, '0')
Pad2(i) == <<Digit(i \div 10), Digit(i % 10)>>

\* String.prototype.split(sep) for a one-character separator
RECURSIVE SplitFrom(_, _, _, _)
SplitFrom(s, sep, i, cur) ==
  IF i > Len(s) THEN <<cur>>
  ELSE IF s[i] = sep THEN <<cur>> \o SplitFrom(s, sep, i + 1, <<>>)
  ELSE SplitFrom(s, sep, i + 1, Append(cur, s[i]))

Split(s, sep) == SplitFrom(s, sep, 1, <<>>)

\* index of the first character of s at or after i that is not a blank
RECURSIVE SkipBlanks(_, _)
SkipBlanks(s, i) ==
  IF i <= Len(s) /\ s[i] = " " THEN SkipBlanks(s, i + 1) ELSE i

\* index just past the run of digits of s that starts at i
RECURSIVE DigitsEnd(_, _)
DigitsEnd(s, i) ==
  IF i <= Len(s) /\ IsDigit(s[i]) THEN DigitsEnd(s, i + 1) ELSE i

\* value of the digits s[i..j-1], 0 for an empty run
RECURSIVE DigitsValue(_, _, _)
DigitsValue(s, i, j) ==
  IF i >= j THEN 0 ELSE DigitsValue(s, i, j - 1) * 10 + DigitVal(s[j - 1])

\* parseInt(s, 10): leading blanks, then the longest run of digits; NaN if
\* there is none (the labels carry no sign)
ParseInt(s) ==
  LET i == SkipBlanks(s, 1)
      j == DigitsEnd(s, i)
  IN IF j = i THEN NaN ELSE Num(DigitsValue(s, i, j))

\* parseFloat(s) in hundredths: leading blanks, digits, an optional '.' and
\* digits; the longest such prefix is read and the rest ignored; NaN when the
\* prefix holds no digit.  Fractions are read to two places (the inputs of the
\* model carry no more).
ParseFloat(s) ==
  LET i == SkipBlanks(s, 1)
      j == DigitsEnd(s, i)
      hasDot == j <= Len(s) /\ s[j] = "."
      k == IF hasDot THEN DigitsEnd(s, j + 1) ELSE j
      nFrac == IF hasDot THEN k - (j + 1) ELSE 0
      frac == IF nFrac = 0 THEN 0
              ELSE IF nFrac = 1 THEN DigitVal(s[j + 1]) * 10
              ELSE DigitVal(s[j + 1]) * 10 + DigitVal(s[j + 2])
  IN IF j = i /\ nFrac = 0 THEN NaN
     ELSE Num(DigitsValue(s, i, j) * 100 + frac)

(* ------------------------------ time series ---------------------------- *)

\* label of half-hour bucket k (0..47): "HH:00" / "HH:30"
HalfHourLabel(k) ==
  Pad2(k \div 2) \o <<":">> \o (IF k % 2 = 0 THEN <<"0", "0">> ELSE <<"3", "0">>)

\* label of hour bucket h (0..23): "HH"
HourLabel(h) == Pad2(h)

\* sum of the numbers seq[lo..hi]
RECURSIVE SumRange(_, _, _)
SumRange(seq, lo, hi) ==
  IF lo > hi THEN 0
  ELSE IF lo = hi THEN seq[lo]
  ELSE SumRange(seq, lo, (lo + hi) \div 2) + SumRange(seq, (lo + hi) \div 2 + 1, hi)

\* reduce((sum, item) => sum + item.count, 0)
SumCounts(series) ==
  SumRange([i \in 1..Len(series) |-> series[i].count], 1, Len(series))

(* --------------------------- work-time detection ----------------------- *)

STANDARD_WORK_HOURS == 9

MIN_VALID_MINUTES == 5 * 60

MAX_VALID_MINUTES == 12 * 60

\* minutes -> hundredths of an hour (minutes / 60)
MinutesToHours(minutes) == (minutes * 100) \div 60

\* hundredths of an hour -> minutes (hours * 60)
HoursToMinutes(hours) == (hours * 60) \div 100

\* GitParser.parseCustomWorkHours: the thrown Error is the result with
\* threw = TRUE; the detection is returned otherwise
parseCustomWorkHours(customWorkHours) ==
  LET parts == Split(customWorkHours, "-")
  IN IF Len(parts) # 2 THEN [threw |-> TRUE, error |-> "format"]
     ELSE
       LET startHour == ParseFloat(parts[1])
           endHour == ParseFloat(parts[2])
       IN IF startHour.nan \/ endHour.nan \/ startHour.v < 0 \/ startHour.v > 2300
             \/ endHour.v < 0 \/ endHour.v > 2400
          THEN [threw |-> TRUE, error |-> "range"]
          ELSE IF startHour.v >= endHour.v
          THEN [threw |-> TRUE, error |-> "order"]
          ELSE [threw |-> FALSE,
                detection |->
                  [startHour |-> startHour.v,
                   endHour |-> endHour.v,
                   isReliable |-> TRUE,
                   sampleCount |-> -1,
                   detectionMethod |-> "manual",
                   confidence |-> 100,
                   startHourRange |-> [startHour |-> startHour.v,
                                       endHour |-> Min2(endHour.v, startHour.v + 100)],
                   endHourRange |-> [startHour |-> Max2(startHour.v, endHour.v - 100),
                                     endHour |-> endHour.v],
                   endDetectionMethod |-> "manual"]]

\* WorkTimeAnalyzer.filterValidDailyCommits; weekDay is getUTCDay() of the
\* sample's date (0 = Sunday)
filterValidDailyCommits(dailyFirstCommits) ==
  SelectSeq(dailyFirstCommits,
            LAMBDA item : ~(item.minutesFromMidnight < MIN_VALID_MINUTES
                            \/ item.minutesFromMidnight > MAX_VALID_MINUTES)
                          /\ item.weekDay >= 1 /\ item.weekDay <= 5)

\* [...samples].sort((a, b) => a - b)
RECURSIVE InsertSorted(_, _)
InsertSorted(sorted, a) ==
  IF sorted = <<>> THEN <<a>>
  ELSE IF a < sorted[1] THEN <<a>> \o sorted
  ELSE <<sorted[1]>> \o InsertSorted(Tail(sorted), a)

RECURSIVE SortAscending(_)
SortAscending(samples) ==
  IF samples = <<>> THEN <<>>
  ELSE InsertSorted(SortAscending(Tail(samples)), samples[1])

\* calculateQuantile interpolating linearly between the two order statistics
\* around the position (n - 1) * quantile, rounded down to a whole minute
calculateQuantileInterpolated(samples, quantileTenths, fallback) ==
  IF Len(samples) = 0 THEN fallback
  ELSE LET sorted == SortAscending(samples)
           position == (Len(sorted) - 1) * quantileTenths
           lower == position \div 10
           weight == position % 10
           upper == IF weight = 0 THEN lower ELSE lower + 1
       IN (sorted[lower + 1] * (10 - weight) + sorted[upper + 1] * weight) \div 10

\* WorkTimeAnalyzer.calculateQuantile; quantileTenths is quantile * 10
calculateQuantile(samples, quantileTenths, fallback) ==
  IF Len(samples) = 0 THEN fallback
  ELSE LET sorted == SortAscending(samples)
           index == ((Len(sorted) - 1) * quantileTenths) \div 10
       IN sorted[index + 1]

roundDownToHalfHour(minutes) == (minutes \div 30) * 30

\* WorkTimeAnalyzer.buildStartHourRange
buildStartHourRange(lowerMinutes, upperMinutes) ==
  LET boundedLower == Max2(MIN_VALID_MINUTES, Min2(lowerMinutes, MAX_VALID_MINUTES))
      boundedUpper == Max2(MIN_VALID_MINUTES, Min2(upperMinutes, MAX_VALID_MINUTES))
      sanitizedLower == roundDownToHalfHour(boundedLower)
      sanitizedUpper == roundDownToHalfHour(Max2(boundedUpper, sanitizedLower + 30))
      start == Min2(sanitizedLower, sanitizedUpper)
      end0 == Max2(sanitizedUpper, start + 30)
      end == Min2(Min2(end0, start + 60), MAX_VALID_MINUTES)
  IN [startHour |-> MinutesToHours(start), endHour |-> MinutesToHours(end)]

\* WorkTimeAnalyzer.buildEndHourRange
buildEndHourRange(startHour, endHour) ==
  LET startMinutes == roundDownToHalfHour(Max2(HoursToMinutes(startHour), MIN_VALID_MINUTES))
      rawEndMinutes == Max2(HoursToMinutes(endHour), startMinutes + STANDARD_WORK_HOURS * 60)
      boundedEndMinutes == Min2(rawEndMinutes, 24 * 60)
      sanitizedEndMinutes == roundDownToHalfHour(boundedEndMinutes)
      rangeEnd == IF sanitizedEndMinutes > 0 THEN sanitizedEndMinutes
                  ELSE Min2(HoursToMinutes(startHour + 100), 24 * 60)
      rangeStart == Max2(startMinutes, rangeEnd - 60)
  IN [startHour |-> MinutesToHours(rangeStart), endHour |-> MinutesToHours(rangeEnd)]

\* WorkTimeAnalyzer.estimateConfidence: Math.round(90 * n / (n + 50))
estimateConfidence(sampleDays) ==
  IF sampleDays <= 0 THEN 0
  ELSE (2 * 90 * sampleDays + (sampleDays + 50)) \div (2 * (sampleDays + 50))

\* detectEndHourWindow (core/end-hour-detector, not part of the sources at
\* hand): the backward scan either reports a breakpoint ('backward-threshold')
\* with an end hour and a one-hour window around it, or does not.  The outcome
\* of the scan is an input of the model.
ObservedEndHours == {1700, 2100}

ObservedEndWindows(standardEndHour) ==
  {[method |-> "standard-shift", endHour |-> standardEndHour,
    range |-> [startHour |-> standardEndHour - 100, endHour |-> standardEndHour]]}
  \cup {[method |-> "backward-threshold", endHour |-> e,
         range |-> [startHour |-> e - 50, endHour |-> e + 50]] : e \in ObservedEndHours}

\* the start range detectWorkingHours derives from the first-commit samples
detectStartRange(dailyFirstCommits) ==
  LET filteredDailyCommits == filterValidDailyCommits(dailyFirstCommits)
      minutesSamples == [i \in 1..Len(filteredDailyCommits) |->
                           filteredDailyCommits[i].minutesFromMidnight]
      defaultMinutes == 9 * 60
  IN IF Len(minutesSamples) > 0
     THEN LET lowerQuantile == calculateQuantile(minutesSamples, 1, defaultMinutes)
              upperQuantile == calculateQuantile(minutesSamples, 2, lowerQuantile + 60)
          IN buildStartHourRange(lowerQuantile, upperQuantile)
     ELSE buildStartHourRange(defaultMinutes, defaultMinutes + 30)

\* detectWorkingHours taking the end hour and its range from the backward scan
\* whatever method the scan reports
detectWorkingHoursAlwaysObserved(dailyFirstCommits, observedEndWindow) ==
  LET sampleCount == Len(filterValidDailyCommits(dailyFirstCommits))
      startRange == detectStartRange(dailyFirstCommits)
      confidence == estimateConfidence(sampleCount)
  IN [startHour |-> startRange.startHour,
      endHour |-> observedEndWindow.endHour,
      isReliable |-> confidence >= 60,
      sampleCount |-> sampleCount,
      detectionMethod |-> IF sampleCount > 0 THEN "quantile-window" ELSE "default",
      confidence |-> confidence,
      startHourRange |-> startRange,
      endHourRange |-> observedEndWindow.range,
      endDetectionMethod |-> IF observedEndWindow.method = "backward-threshold"
                             THEN "backward-threshold" ELSE "standard-shift"]

\* WorkTimeAnalyzer.detectWorkingHours, given the outcome of the backward scan
detectWorkingHours(dailyFirstCommits, observedEndWindow) ==
  LET sampleCount == Len(filterValidDailyCommits(dailyFirstCommits))
      startRange == detectStartRange(dailyFirstCommits)
      startHour == startRange.startHour
      standardEndHour == Min2(startHour + STANDARD_WORK_HOURS * 100, 2400)
      standardRange == buildEndHourRange(startHour, standardEndHour)
      useObserved == observedEndWindow.method = "backward-threshold"
      confidence == estimateConfidence(sampleCount)
  IN [startHour |-> startHour,
      endHour |-> IF useObserved THEN observedEndWindow.endHour ELSE standardEndHour,
      isReliable |-> confidence >= 60,
      sampleCount |-> sampleCount,
      detectionMethod |-> IF sampleCount > 0 THEN "quantile-window" ELSE "default",
      confidence |-> confidence,
      startHourRange |-> startRange,
      endHourRange |-> IF useObserved THEN observedEndWindow.range ELSE standardRange,
      endDetectionMethod |-> IF useObserved THEN "backward-threshold" ELSE "standard-shift"]

\* the standard-shift end hour detectWorkingHours hands to the backward scan
standardEndHourOf(dailyFirstCommits) ==
  Min2(detectStartRange(dailyFirstCommits).startHour + STANDARD_WORK_HOURS * 100, 2400)

\* isWorkingHour without the nine-hour cap on the normal window
isWorkingHourUncapped(hour, detection) ==
  ~hour.nan /\ hour.v * 100 >= detection.startHour
  /\ hour.v * 100 < Max2(detection.startHour, detection.endHour)

\* WorkTimeAnalyzer.isWorkingHour; hour is the parseInt of a bucket label
isWorkingHour(hour, detection) ==
  LET startMinutes == detection.startHour
      cappedEndHour == Min2(detection.endHour,
                            detection.startHour + STANDARD_WORK_HOURS * 100)
      endMinutes == Max2(startMinutes, cappedEndHour)
  IN ~hour.nan /\ hour.v * 100 >= startMinutes /\ hour.v * 100 < endMinutes

(* ------------------- work / overtime and weekday / weekend ------------- *)

\* calculateWorkHourPl counting as overtime only the buckets at or after the
\* window's start
calculateWorkHourPlAfterStart(hourData, workTimeDetection) ==
  LET hour == [i \in 1..Len(hourData) |-> ParseInt(hourData[i].time)]
      workHours == [i \in 1..Len(hourData) |->
                      IF isWorkingHour(hour[i], workTimeDetection)
                      THEN hourData[i].count ELSE 0]
      overtimeHours == [i \in 1..Len(hourData) |->
                          IF ~isWorkingHour(hour[i], workTimeDetection)
                             /\ ~hour[i].nan
                             /\ hour[i].v * 100 >= workTimeDetection.startHour
                          THEN hourData[i].count ELSE 0]
  IN <<SumRange(workHours, 1, Len(hourData)), SumRange(overtimeHours, 1, Len(hourData))>>

\* GitParser.calculateWorkHourPl: <<normal count, overtime count>>; every
\* bucket adds its count to workHours or to overtimeHours
calculateWorkHourPl(hourData, workTimeDetection) ==
  LET hour == [i \in 1..Len(hourData) |-> ParseInt(hourData[i].time)]
      workHours == [i \in 1..Len(hourData) |->
                      IF isWorkingHour(hour[i], workTimeDetection)
                      THEN hourData[i].count ELSE 0]
      overtimeHours == [i \in 1..Len(hourData) |->
                          IF isWorkingHour(hour[i], workTimeDetection)
                          THEN 0 ELSE hourData[i].count]
  IN <<SumRange(workHours, 1, Len(hourData)), SumRange(overtimeHours, 1, Len(hourData))>>

\* GitParser.calculateWorkWeekPlBasic: <<weekday count, weekend count>>
RECURSIVE calculateWorkWeekPlBasic(_)
calculateWorkWeekPlBasic(dayData) ==
  IF dayData = <<>> THEN <<0, 0>>
  ELSE LET item == dayData[1]
           day == ParseInt(item.time)
           rest == calculateWorkWeekPlBasic(Tail(dayData))
       IN IF ~day.nan /\ day.v >= 1 /\ day.v <= 5
          THEN <<rest[1] + item.count, rest[2]>>
          ELSE <<rest[1], rest[2] + item.count>>

\* WorkdayChecker.fallbackIsWorkday; dayOfWeek is getDay() of the date
fallbackIsWorkday(date) == date.dayOfWeek >= 1 /\ date.dayOfWeek <= 5

\* WorkdayChecker.isWorkday: the holiday calendar knows a date as an ordinary
\* day, a legal holiday or a make-up workday, or throws for it ("unknown")
isWorkday(date, enabled) ==
  IF ~enabled THEN fallbackIsWorkday(date)
  ELSE IF date.calendar = "unknown" THEN fallbackIsWorkday(date)
  ELSE IF date.calendar = "holiday" THEN FALSE
  ELSE IF date.calendar = "makeup" THEN TRUE
  ELSE fallbackIsWorkday(date)

RECURSIVE SumByWorkday(_, _)
SumByWorkday(dailyCommitCounts, enabled) ==
  IF dailyCommitCounts = <<>> THEN <<0, 0>>
  ELSE LET item == dailyCommitCounts[1]
           rest == SumByWorkday(Tail(dailyCommitCounts), enabled)
       IN IF isWorkday(item.date, enabled)
          THEN <<rest[1] + item.count, rest[2]>>
          ELSE <<rest[1], rest[2] + item.count>>

\* GitParser.calculateWorkWeekPl (isWorkday never rejects, so the catch branch
\* is not taken)
calculateWorkWeekPl(dayData, dailyCommitCounts, enableHolidayMode) ==
  IF Len(dailyCommitCounts) = 0 THEN calculateWorkWeekPlBasic(dayData)
  ELSE SumByWorkday(dailyCommitCounts, enableHolidayMode)

(* ------------------------------ 996 index ------------------------------ *)

\* Math.round(x + (y * n) / (m + n)): round half up; NaN when m + n = 0
\* (then n = 0 and the quotient is 0 / 0)
overTimeAmendCount(x, y, m, n) ==
  IF m + n = 0 THEN NaN
  ELSE Num((2 * (x * (m + n) + y * n) + (m + n)) \div (2 * (m + n)))

\* The percentages k for which the double (k / 100) * 100 exceeds k, so that
\* Math.ceil gives k + 1: (7 / 100) * 100 = 7.000000000000001, and likewise
\* for 14, 28, 55 and 56.  The IEEE-754 quotient a / b depends only on the
\* value of a / b, so these are the only exact percentages rounded up.
InexactPercents == {7, 14, 28, 55, 56}

\* Math.ceil((a / b) * 100) for integers 0 <= a, 0 < b in double arithmetic
CeilPercent(a, b) ==
  LET exact == (100 * a + b - 1) \div b
  IN IF (100 * a) % b = 0 /\ exact \in InexactPercents THEN exact + 1 ELSE exact

\* getUn996Radio: Math.ceil((totalCount / (totalCount / length * 9)) * 100) - 100
\* for totalCount > 0; the quotient is 0 for an empty hourData (x / Infinity)
getUn996Radio(hourData, totalCount) ==
  IF Len(hourData) = 0 THEN 0 - 100
  ELSE ((100 * totalCount * Len(hourData) + 9 * totalCount - 1) \div (9 * totalCount)) - 100

\* generateDescription with the second breakpoint exclusive
generateDescriptionExclusive(index996) ==
  IF index996.nan THEN 7
  ELSE IF index996.v <= 0 THEN 1
  ELSE IF index996.v < 21 THEN 2
  ELSE IF index996.v <= 48 THEN 3
  ELSE IF index996.v <= 63 THEN 4
  ELSE IF index996.v <= 100 THEN 5
  ELSE IF index996.v <= 130 THEN 6
  ELSE 7

\* generateDescription: the index of the returned label among the seven
\* (1 = the healthiest, 7 = the last one; every comparison with NaN is false)
generateDescription(index996) ==
  IF index996.nan THEN 7
  ELSE IF index996.v <= 0 THEN 1
  ELSE IF index996.v <= 21 THEN 2
  ELSE IF index996.v <= 48 THEN 3
  ELSE IF index996.v <= 63 THEN 4
  ELSE IF index996.v <= 100 THEN 5
  ELSE IF index996.v <= 130 THEN 6
  ELSE 7

\* calculate996Index
calculate996Index(data) ==
  LET y == data.workHourPl[1]
      x == data.workHourPl[2]
      m == data.workWeekPl[1]
      n == data.workWeekPl[2]
      amend == overTimeAmendCount(x, y, m, n)
      totalCount == y + x
      primary == IF amend.nan \/ totalCount = 0 THEN NaN
                 ELSE Num(CeilPercent(amend.v, totalCount))
      overTimeRadio == IF ~primary.nan /\ primary.v = 0 /\ Len(data.hourData) < 9
                       THEN Num(getUn996Radio(data.hourData, totalCount))
                       ELSE primary
      index996 == IF overTimeRadio.nan THEN NaN ELSE Num(overTimeRadio.v * 3)
  IN [index996 |-> index996,
      index996Str |-> generateDescription(index996),
      overTimeRadio |-> overTimeRadio]

(* ------------------------------- parsing ------------------------------- *)

\* GitParser.parseGitData, given the outcome of the backward scan; an empty
\* override string is falsy and selects the automatic detection
parseGitData(rawData, customWorkHours, enableHolidayMode, observedEndWindow) ==
  LET manual == IF customWorkHours.given /\ Len(customWorkHours.text) > 0
                THEN parseCustomWorkHours(customWorkHours.text)
                ELSE [threw |-> FALSE,
                      detection |-> detectWorkingHours(rawData.dailyFirstCommits,
                                                       observedEndWindow)]
  IN IF manual.threw THEN [threw |-> TRUE, error |-> manual.error]
     ELSE [threw |-> FALSE,
           hourData |-> rawData.byHour,
           dayData |-> rawData.byDay,
           workHourPl |-> calculateWorkHourPl(rawData.byHour, manual.detection),
           workWeekPl |-> calculateWorkWeekPl(rawData.byDay, rawData.dailyCommitCounts,
                                              enableHolidayMode),
           detectedWorkTime |-> manual.detection]

(* --------------------------- project classifier ------------------------ *)

\* the regularity dimension of detectWorkTimeRegularity, given whether the
\* workday hour histogram is empty and the outcome of its four checks
detectWorkTimeRegularity(noData, checks) ==
  IF noData
  THEN [score |-> 50,
        details |-> [morningUptrend |-> FALSE, afternoonPeak |-> FALSE,
                     eveningDowntrend |-> FALSE, nightLowActivity |-> FALSE]]
  ELSE [score |-> (IF checks.morningUptrend THEN 25 ELSE 0)
                  + (IF checks.afternoonPeak THEN 25 ELSE 0)
                  + (IF checks.eveningDowntrend THEN 25 ELSE 0)
                  + (IF checks.nightLowActivity THEN 25 ELSE 0),
        details |-> checks]

\* detectWeekendActivity: the ratio weekend / total as a fraction (0 without data)
detectWeekendActivity(workWeekPl) ==
  LET total == workWeekPl[1] + workWeekPl[2]
  IN IF total = 0 THEN [ratio |-> [num |-> 0, den |-> 1]]
     ELSE [ratio |-> [num |-> workWeekPl[2], den |-> total]]

\* detectMoonlightingPattern, from the 9:00-18:00 and the 19:00-24:00 commits
\* of the workday hour histogram
detectMoonlightingPattern(dayTimeCommits, nightTimeCommits) ==
  LET total == dayTimeCommits + nightTimeCommits
  IN IF total = 0 THEN [isActive |-> FALSE, nightRatio |-> [num |-> 0, den |-> 1]]
     ELSE [isActive |-> 4 * nightTimeCommits >= total,
           nightRatio |-> [num |-> nightTimeCommits, den |-> total]]

\* ratio >= percent / 100
AtLeastPercent(ratio, percent) == 100 * ratio.num >= percent * ratio.den

\* Math.round of a non-negative number given as its double
RoundHalves(twice) == (twice + 1) \div 2

\* the reasons makeDecision pushes, in order, and the score they add up to
regularityReason(regularity) ==
  IF regularity.score < 30
  THEN <<[dimension |-> "regularity", tier |-> "lowest", points |-> 60]>>
  ELSE IF regularity.score < 50
  THEN <<[dimension |-> "regularity", tier |-> "low", points |-> 40]>>
  ELSE IF regularity.score < 75
  THEN <<[dimension |-> "regularity", tier |-> "medium", points |-> 20]>>
  ELSE <<>>

contributorsReason(contributorsCount) ==
  IF contributorsCount >= 20 /\ contributorsCount < 50
  THEN <<[dimension |-> "contributors", tier |-> "many", points |-> 20]>>
  ELSE IF contributorsCount >= 10 /\ contributorsCount < 20
  THEN <<[dimension |-> "contributors", tier |-> "medium", points |-> 10]>>
  ELSE <<>>

weekendReason(weekend) ==
  IF AtLeastPercent(weekend.ratio, 30)
  THEN <<[dimension |-> "weekend", tier |-> "high", points |-> 30]>>
  ELSE IF AtLeastPercent(weekend.ratio, 20)
  THEN <<[dimension |-> "weekend", tier |-> "higher", points |-> 20]>>
  ELSE IF AtLeastPercent(weekend.ratio, 15)
  THEN <<[dimension |-> "weekend", tier |-> "medium", points |-> 10]>>
  ELSE <<>>

moonlightingReason(moonlighting) ==
  IF moonlighting.isActive
  THEN <<[dimension |-> "moonlighting", tier |-> "active", points |-> 20]>>
  ELSE <<>>

RECURSIVE SumPoints(_)
SumPoints(reasons) ==
  IF reasons = <<>> THEN 0 ELSE reasons[1].points + SumPoints(Tail(reasons))

\* weightedDecision with the community threshold exclusive
weightedDecisionAbove60(regularity, weekend, moonlighting, contributorsCount) ==
  LET reasons == regularityReason(regularity) \o contributorsReason(contributorsCount)
                 \o weekendReason(weekend) \o moonlightingReason(moonlighting)
      ossScore == SumPoints(reasons)
  IN IF ossScore > 60
     THEN [projectType |-> "open_source",
           confidence |-> RoundHalves(Min2(190, 100 + ossScore)),
           reasoning |-> [head |-> "open-source-features", reasons |-> reasons],
           ossScore |-> ossScore]
     ELSE IF ossScore >= 40
     THEN [projectType |-> "uncertain",
           confidence |-> 50,
           reasoning |-> [head |-> "unclear-features", reasons |-> reasons],
           ossScore |-> ossScore]
     ELSE [projectType |-> "corporate",
           confidence |-> RoundHalves(2 * Min2(95, 80 - ossScore)),
           reasoning |-> [head |-> "corporate-features", reasons |-> <<>>],
           ossScore |-> ossScore]

\* the weighted part of makeDecision: the community score and the decision
\* taken from it
weightedDecision(regularity, weekend, moonlighting, contributorsCount) ==
  LET reasons == regularityReason(regularity) \o contributorsReason(contributorsCount)
                 \o weekendReason(weekend) \o moonlightingReason(moonlighting)
      ossScore == SumPoints(reasons)
  IN IF ossScore >= 60
     THEN [projectType |-> "open_source",
           confidence |-> RoundHalves(Min2(190, 100 + ossScore)),
           reasoning |-> [head |-> "open-source-features", reasons |-> reasons],
           ossScore |-> ossScore]
     ELSE IF ossScore >= 40
     THEN [projectType |-> "uncertain",
           confidence |-> 50,
           reasoning |-> [head |-> "unclear-features", reasons |-> reasons],
           ossScore |-> ossScore]
     ELSE [projectType |-> "corporate",
           confidence |-> RoundHalves(2 * Min2(95, 80 - ossScore)),
           reasoning |-> [head |-> "corporate-features", reasons |-> <<>>],
           ossScore |-> ossScore]

\* the two strong-feature returns of makeDecision
manyContributorsDecision(contributorsCount) ==
  [projectType |-> "open_source",
   confidence |-> Min2(95, 70 + contributorsCount \div 10),
   reasoning |-> [head |-> "many-contributors", reasons |-> <<>>],
   ossScore |-> -1]

noRegularityDecision ==
  [projectType |-> "open_source",
   confidence |-> 90,
   reasoning |-> [head |-> "no-regularity", reasons |-> <<>>],
   ossScore |-> -1]

\* makeDecision with the contributor rule firing above 50 only
makeDecisionAbove50(regularity, weekend, moonlighting, contributorsCount) ==
  IF contributorsCount > 50 THEN manyContributorsDecision(contributorsCount)
  ELSE IF regularity.score <= 25 THEN noRegularityDecision
  ELSE weightedDecision(regularity, weekend, moonlighting, contributorsCount)

\* makeDecision with the regularity rule tried before the contributor rule
makeDecisionRegularityFirst(regularity, weekend, moonlighting, contributorsCount) ==
  IF regularity.score <= 25 THEN noRegularityDecision
  ELSE IF contributorsCount >= 50 THEN manyContributorsDecision(contributorsCount)
  ELSE weightedDecision(regularity, weekend, moonlighting, contributorsCount)

\* ProjectClassifier.makeDecision.  reasoning is the sentence returned (its
\* head) with the reasons joined into it; ossScore is the local score, -1
\* when the function returns before computing it
makeDecision(regularity, weekend, moonlighting, contributorsCount) ==
  IF contributorsCount >= 50 THEN manyContributorsDecision(contributorsCount)
  ELSE IF regularity.score <= 25 THEN noRegularityDecision
  ELSE weightedDecision(regularity, weekend, moonlighting, contributorsCount)

\* ProjectClassifier.classify
classify(input) ==
  LET regularityResult == detectWorkTimeRegularity(input.noData, input.checks)
      weekendResult == detectWeekendActivity(input.workWeekPl)
      moonlightingResult == detectMoonlightingPattern(input.dayTimeCommits,
                                                      input.nightTimeCommits)
      decision == makeDecision(regularityResult, weekendResult, moonlightingResult,
                               input.contributors)
  IN [projectType |-> decision.projectType,
      confidence |-> decision.confidence,
      dimensions |-> [workTimeRegularity |-> regularityResult,
                      weekendActivity |-> weekendResult,
                      moonlightingPattern |-> moonlightingResult,
                      contributorsCount |-> input.contributors],
      reasoning |-> decision.reasoning,
      ossScore |-> decision.ossScore]

(* --------------------------- timezone analyzer ------------------------- *)

\* the thresholds are percentages here (0.01 = 1 %): for integer counts the
\* double comparisons c / t >= 0.01 and 1 - c / t >= 0.01 agree with the exact
\* ones
CROSS_TIMEZONE_THRESHOLD == 1

SLEEP_WINDOW_HOURS == 5

SLEEP_RATIO_THRESHOLD == 1

\* parseInt(item.time.split(':')[0], 10)
LabelHour(time) == ParseInt(Split(time, ":")[1])

\* TimezoneAnalyzer.aggregateToHourArray: the 24 hour counts, indexed 0..23
aggregateToHourArray(hourData) ==
  [h \in 0..23 |->
     SumRange([i \in 1..Len(hourData) |->
                 LET hour == LabelHour(hourData[i].time)
                 IN IF ~hour.nan /\ hour.v >= 0 /\ hour.v < 24 /\ hour.v = h
                    THEN hourData[i].count ELSE 0],
              1, Len(hourData))]

\* the sum of the window of SLEEP_WINDOW_HOURS hours from `start`, wrapping
windowSum(hourCounts, start) ==
  SumRange([i \in 1..SLEEP_WINDOW_HOURS |-> hourCounts[(start + i - 1) % 24]],
           1, SLEEP_WINDOW_HOURS)

\* the scan of analyzeSleepPeriod over the starts `start`..23, from the best
\* window so far (minSum = -1 stands for Infinity)
RECURSIVE scanWindows(_, _, _, _)
scanWindows(hourCounts, start, minSum, minWindowStart) ==
  IF start >= 24 THEN [minSum |-> minSum, minWindowStart |-> minWindowStart]
  ELSE IF minSum = -1 \/ windowSum(hourCounts, start) < minSum
  THEN scanWindows(hourCounts, start + 1, windowSum(hourCounts, start), start)
  ELSE scanWindows(hourCounts, start + 1, minSum, minWindowStart)

\* analyzeSleepPeriod scanning only the windows that do not wrap
analyzeSleepPeriodNoWrap(hourData) ==
  LET hourCounts == aggregateToHourArray(hourData)
      total == SumRange([i \in 1..24 |-> hourCounts[i - 1]], 1, 24)
  IN IF total = 0 THEN [minSleepRatio |-> [num |-> 0, den |-> 1], sleepWindow |-> <<>>]
     ELSE LET low == CHOOSE s \in 0..(24 - SLEEP_WINDOW_HOURS) :
                       \A t \in 0..(24 - SLEEP_WINDOW_HOURS) :
                         windowSum(hourCounts, s) <= windowSum(hourCounts, t)
          IN [minSleepRatio |-> [num |-> windowSum(hourCounts, low), den |-> total],
              sleepWindow |-> [i \in 1..SLEEP_WINDOW_HOURS |-> (low + i - 1) % 24]]

\* TimezoneAnalyzer.analyzeSleepPeriod; the ratio is the fraction minSum / total
analyzeSleepPeriod(hourData) ==
  LET hourCounts == aggregateToHourArray(hourData)
      total == SumRange([i \in 1..24 |-> hourCounts[i - 1]], 1, 24)
  IN IF total = 0 THEN [minSleepRatio |-> [num |-> 0, den |-> 1], sleepWindow |-> <<>>]
     ELSE LET scan == scanWindows(hourCounts, 0, -1, 0)
          IN [minSleepRatio |-> [num |-> scan.minSum, den |-> total],
              sleepWindow |-> [i \in 1..SLEEP_WINDOW_HOURS |->
                                 (scan.minWindowStart + i - 1) % 24]]

\* TimezoneAnalyzer.calculateTimezoneDiversity (the groups are left out);
\* crossTimezoneRatio = 1 - count / totalCommits
calculateTimezoneDiversity(data) ==
  IF Len(data.timezones) = 0
  THEN [crossTimezoneRatio |-> [num |-> 0, den |-> 1], dominantTimezone |-> "null",
        dominantRatio |-> [num |-> 0, den |-> 1]]
  ELSE LET dominantTz == data.timezones[1]
       IN [crossTimezoneRatio |-> [num |-> data.totalCommits - dominantTz.count,
                                   den |-> data.totalCommits],
           dominantTimezone |-> dominantTz.offset,
           dominantRatio |-> [num |-> dominantTz.count, den |-> data.totalCommits]]

\* TimezoneAnalyzer.calculateConfidence
calculateConfidence(tzDiversity, sleepAnalysis, totalCommits) ==
  LET baseConfidence == IF totalCommits < 50 THEN 30
                        ELSE IF totalCommits < 200 THEN 50
                        ELSE IF totalCommits < 500 THEN 70
                        ELSE 85
      bothMethodsAgree ==
        /\ AtLeastPercent(tzDiversity.crossTimezoneRatio, CROSS_TIMEZONE_THRESHOLD)
        /\ AtLeastPercent(sleepAnalysis.minSleepRatio, SLEEP_RATIO_THRESHOLD)
  IN IF bothMethodsAgree THEN Min2(95, baseConfidence + 15) ELSE baseConfidence

\* analyzeTimezone flagging only when both methods agree
analyzeTimezoneBothMethods(timezoneData, hourData) ==
  IF timezoneData.totalCommits = 0
  THEN [isCrossTimezone |-> FALSE, crossTimezoneRatio |-> [num |-> 0, den |-> 1],
        dominantTimezone |-> "null", dominantRatio |-> [num |-> 0, den |-> 1],
        sleepPeriodRatio |-> [num |-> 0, den |-> 1], confidence |-> 0]
  ELSE LET tzDiversity == calculateTimezoneDiversity(timezoneData)
           sleepAnalysis == analyzeSleepPeriod(hourData)
       IN [isCrossTimezone |->
             AtLeastPercent(tzDiversity.crossTimezoneRatio, CROSS_TIMEZONE_THRESHOLD)
             /\ AtLeastPercent(sleepAnalysis.minSleepRatio, SLEEP_RATIO_THRESHOLD),
           crossTimezoneRatio |-> tzDiversity.crossTimezoneRatio,
           dominantTimezone |-> tzDiversity.dominantTimezone,
           dominantRatio |-> tzDiversity.dominantRatio,
           sleepPeriodRatio |-> sleepAnalysis.minSleepRatio,
           confidence |-> calculateConfidence(tzDiversity, sleepAnalysis,
                                              timezoneData.totalCommits)]

\* TimezoneAnalyzer.analyzeTimezone
analyzeTimezone(timezoneData, hourData) ==
  IF timezoneData.totalCommits = 0
  THEN [isCrossTimezone |-> FALSE, crossTimezoneRatio |-> [num |-> 0, den |-> 1],
        dominantTimezone |-> "null", dominantRatio |-> [num |-> 0, den |-> 1],
        sleepPeriodRatio |-> [num |-> 0, den |-> 1], confidence |-> 0]
  ELSE LET tzDiversity == calculateTimezoneDiversity(timezoneData)
           sleepAnalysis == analyzeSleepPeriod(hourData)
       IN [isCrossTimezone |->
             AtLeastPercent(tzDiversity.crossTimezoneRatio, CROSS_TIMEZONE_THRESHOLD)
             \/ AtLeastPercent(sleepAnalysis.minSleepRatio, SLEEP_RATIO_THRESHOLD),
           crossTimezoneRatio |-> tzDiversity.crossTimezoneRatio,
           dominantTimezone |-> tzDiversity.dominantTimezone,
           dominantRatio |-> tzDiversity.dominantRatio,
           sleepPeriodRatio |-> sleepAnalysis.minSleepRatio,
           confidence |-> calculateConfidence(tzDiversity, sleepAnalysis,
                                              timezoneData.totalCommits)]

(* --------------------------- overtime analyzer ------------------------- *)

\* Math.ceil of a clock hour kept in hundredths
CeilHour(hour) == (hour + 99) \div 100

\* the keys of overtimeCounts in insertion order, the order of Object.entries
dayNames == <<"monday", "tuesday", "wednesday", "thursday", "friday">>

\* the loop over dayHourCommits: the count of a commit is added to the entry of
\* its weekday when the weekday is 1..5 and its hour is not before endHour
RECURSIVE countOvertime(_, _, _)
countOvertime(dayHourCommits, endHour, overtimeCounts) ==
  IF dayHourCommits = <<>> THEN overtimeCounts
  ELSE LET commit == dayHourCommits[1]
           counted == /\ commit.weekday >= 1 /\ commit.weekday <= 5
                      /\ commit.hour >= endHour
       IN countOvertime(Tail(dayHourCommits), endHour,
            IF counted
            THEN [overtimeCounts EXCEPT ![commit.weekday] = @ + commit.count]
            ELSE overtimeCounts)

\* entries.reduce((max, curr) => (curr[1] > max[1] ? curr : max), entries[0])
RECURSIVE maxEntry(_, _, _)
maxEntry(overtimeCounts, i, max) ==
  IF i > 5 THEN max
  ELSE maxEntry(overtimeCounts, i + 1,
                IF overtimeCounts[i] > overtimeCounts[max] THEN i ELSE max)

\* the reduce with >= in place of >: the last of equal entries wins
RECURSIVE maxEntryLast(_, _, _)
maxEntryLast(overtimeCounts, i, max) ==
  IF i > 5 THEN max
  ELSE maxEntryLast(overtimeCounts, i + 1,
                    IF overtimeCounts[i] >= overtimeCounts[max] THEN i ELSE max)

WeekdayOvertimeDistribution(overtimeCounts, peak) ==
  [monday |-> overtimeCounts[1], tuesday |-> overtimeCounts[2],
   wednesday |-> overtimeCounts[3], thursday |-> overtimeCounts[4],
   friday |-> overtimeCounts[5],
   peakDay |-> dayNames[peak], peakCount |-> overtimeCounts[peak]]

\* calculateWeekdayOvertime with the last of equal weekdays as the peak
calculateWeekdayOvertimeLastPeak(dayHourCommits, workTime) ==
  LET endHour == CeilHour(workTime.endHour)
      overtimeCounts == countOvertime(dayHourCommits, endHour, [d \in 1..5 |-> 0])
  IN WeekdayOvertimeDistribution(overtimeCounts, maxEntryLast(overtimeCounts, 1, 1))

\* OvertimeAnalyzer.calculateWeekdayOvertime; peakDay is the weekday's key (the
\* code maps it one-to-one to the weekday's display name)
calculateWeekdayOvertime(dayHourCommits, workTime) ==
  LET endHour == CeilHour(workTime.endHour)
      overtimeCounts == countOvertime(dayHourCommits, endHour, [d \in 1..5 |-> 0])
  IN WeekdayOvertimeDistribution(overtimeCounts, maxEntry(overtimeCounts, 1, 1))

REAL_OVERTIME_THRESHOLD == 3

\* WorkdayChecker.fallbackIsHoliday
fallbackIsHoliday(date) == date.dayOfWeek = 0 \/ date.dayOfWeek = 6

\* WorkdayChecker.isHoliday: the answer of the holiday calendar, the plain
\* weekend when the checker is disabled or the calendar throws for the date
isHoliday(date, enabled) ==
  IF ~enabled THEN fallbackIsHoliday(date)
  ELSE IF date.calendar = "unknown" THEN fallbackIsHoliday(date)
  ELSE IF date.calendar = "holiday" THEN TRUE
  ELSE IF date.calendar = "makeup" THEN FALSE
  ELSE fallbackIsHoliday(date)

NoWeekendOvertime ==
  [saturdayDays |-> 0, sundayDays |-> 0, casualFixDays |-> 0, realOvertimeDays |-> 0]

\* one counted day: the tally of its weekday (every day that is not a Sunday
\* goes to the Saturday tally) and the real-overtime or the quick-fix tally
countDay(tally, dayOfWeek, isRealOvertime) ==
  [saturdayDays |-> tally.saturdayDays + (IF dayOfWeek # 0 THEN 1 ELSE 0),
   sundayDays |-> tally.sundayDays + (IF dayOfWeek = 0 THEN 1 ELSE 0),
   casualFixDays |-> tally.casualFixDays + (IF isRealOvertime THEN 0 ELSE 1),
   realOvertimeDays |-> tally.realOvertimeDays + (IF isRealOvertime THEN 1 ELSE 0)]

\* OvertimeAnalyzer.calculateWeekendOvertimeBasic, the loop from entry i on
RECURSIVE weekendOvertimeBasicFrom(_, _, _)
weekendOvertimeBasicFrom(dailyCommitHours, i, tally) ==
  IF i > Len(dailyCommitHours) THEN tally
  ELSE LET dayOfWeek == dailyCommitHours[i].date.dayOfWeek
           commitHours == Cardinality(dailyCommitHours[i].hours)
       IN weekendOvertimeBasicFrom(dailyCommitHours, i + 1,
            IF dayOfWeek # 0 /\ dayOfWeek # 6 THEN tally
            ELSE countDay(tally, dayOfWeek, commitHours >= REAL_OVERTIME_THRESHOLD))

calculateWeekendOvertimeBasic(dailyCommitHours) ==
  weekendOvertimeBasicFrom(dailyCommitHours, 1, NoWeekendOvertime)

\* the loop of calculateWeekendOvertime from entry i on; `threshold` is the
\* least number of active hours of a real-overtime day
RECURSIVE weekendOvertimeFrom(_, _, _, _, _)
weekendOvertimeFrom(dailyCommitHours, enabled, threshold, i, tally) ==
  IF i > Len(dailyCommitHours) THEN tally
  ELSE LET date == dailyCommitHours[i].date
           commitHours == Cardinality(dailyCommitHours[i].hours)
       IN weekendOvertimeFrom(dailyCommitHours, enabled, threshold, i + 1,
            IF ~isHoliday(date, enabled) THEN tally
            ELSE countDay(tally, date.dayOfWeek, commitHours >= threshold))

\* calculateWeekendOvertime with more than 3 active hours asked of a
\* real-overtime day
calculateWeekendOvertimeAbove3(dailyCommitHours, enableHolidayMode, checkerThrows) ==
  IF checkerThrows THEN calculateWeekendOvertimeBasic(dailyCommitHours)
  ELSE weekendOvertimeFrom(dailyCommitHours, enableHolidayMode,
                           REAL_OVERTIME_THRESHOLD + 1, 1, NoWeekendOvertime)

\* OvertimeAnalyzer.calculateWeekendOvertime; checkerThrows: getWorkdayChecker
\* or the batch query throws and the catch block runs the basic calculation
calculateWeekendOvertime(dailyCommitHours, enableHolidayMode, checkerThrows) ==
  IF checkerThrows THEN calculateWeekendOvertimeBasic(dailyCommitHours)
  ELSE weekendOvertimeFrom(dailyCommitHours, enableHolidayMode,
                           REAL_OVERTIME_THRESHOLD, 1, NoWeekendOvertime)

\* a Map from date keys to numbers without entries
EmptyMap == [date \in {} |-> 0]

\* the loop of CommitCollector.getDailyLatestCommits over the parsed log lines
\* (date keys are day numbers): a commit before 6 o'clock goes to the day
\* before with 24 hours added, and the largest minute of a day is kept
RECURSIVE collectDailyLatest(_, _)
collectDailyLatest(lines, dailyLatest) ==
  IF lines = <<>> THEN dailyLatest
  ELSE LET parsed == lines[1]
           early == parsed.hour >= 0 /\ parsed.hour < 6
           effectiveDate == IF early THEN parsed.dateKey - 1 ELSE parsed.dateKey
           effectiveMinutes == parsed.hour * 60 + parsed.minute
                               + (IF early THEN 24 * 60 ELSE 0)
       IN collectDailyLatest(Tail(lines),
            IF effectiveDate \notin DOMAIN dailyLatest
               \/ effectiveMinutes > dailyLatest[effectiveDate]
            THEN (effectiveDate :> effectiveMinutes) @@ dailyLatest
            ELSE dailyLatest)

\* Array.from(map.entries()).map(...).sort((a, b) => a.date.localeCompare(b.date))
RECURSIVE entriesByDate(_)
entriesByDate(dailyMap) ==
  IF DOMAIN dailyMap = {} THEN <<>>
  ELSE LET first == CHOOSE d \in DOMAIN dailyMap : \A e \in DOMAIN dailyMap : d <= e
       IN <<[date |-> first, minutesFromMidnight |-> dailyMap[first]]>>
          \o entriesByDate([d \in DOMAIN dailyMap \ {first} |-> dailyMap[d]])

getDailyLatestCommits(lines) == entriesByDate(collectDailyLatest(lines, EmptyMap))

\* the loops of GitDataMerger.mergeDailyLatestCommits over the repositories and
\* their entries
RECURSIVE mergeLatestEntries(_, _)
mergeLatestEntries(items, dailyMap) ==
  IF items = <<>> THEN dailyMap
  ELSE LET item == items[1]
       IN mergeLatestEntries(Tail(items),
            IF item.date \notin DOMAIN dailyMap
               \/ item.minutesFromMidnight > dailyMap[item.date]
            THEN (item.date :> item.minutesFromMidnight) @@ dailyMap
            ELSE dailyMap)

RECURSIVE mergeLatestRepos(_, _)
mergeLatestRepos(dataList, dailyMap) ==
  IF dataList = <<>> THEN dailyMap
  ELSE mergeLatestRepos(Tail(dataList), mergeLatestEntries(dataList[1], dailyMap))

\* GitDataMerger.mergeDailyLatestCommits (no entry at all: the empty list
\* stands for undefined)
mergeDailyLatestCommits(dataList) == entriesByDate(mergeLatestRepos(dataList, EmptyMap))

NoLateNight ==
  [evening |-> 0, lateNight |-> 0, midnight |-> 0, dawn |-> 0, midnightDaysSet |-> {}]

\* the loop of calculateLateNightAnalysis over the days' latest commits
RECURSIVE lateNightFrom(_, _, _, _)
lateNightFrom(dailyLatestCommits, endHour, i, tally) ==
  IF i > Len(dailyLatestCommits) THEN tally
  ELSE LET date == dailyLatestCommits[i].date
           latestHour == dailyLatestCommits[i].minutesFromMidnight \div 60
       IN lateNightFrom(dailyLatestCommits, endHour, i + 1,
            IF latestHour >= endHour /\ latestHour < 21
            THEN [tally EXCEPT !.evening = @ + 1]
            ELSE IF latestHour >= 21 /\ latestHour < 23
            THEN [tally EXCEPT !.lateNight = @ + 1]
            ELSE IF latestHour >= 23
            THEN [tally EXCEPT !.midnight = @ + 1, !.midnightDaysSet = @ \cup {date}]
            ELSE IF latestHour < 6
            THEN [tally EXCEPT !.dawn = @ + 1, !.midnightDaysSet = @ \cup {date}]
            ELSE tally)

\* OvertimeAnalyzer.calculateLateNightAnalysis; dateRange is the number of
\* days from since to until when both are given; isWorkdayBatch never rejects,
\* so the catch branch is not taken; midnightRate is kept as a fraction
calculateLateNightAnalysis(dailyLatestCommits, dailyFirstCommits, workTime, dateRange, enableHolidayMode) ==
  LET endHour == CeilHour(workTime.endHour)
      tally == lateNightFrom(dailyLatestCommits, endHour, 1, NoLateNight)
      workDaysSet == {dailyFirstCommits[i].date : i \in
                        {j \in 1..Len(dailyFirstCommits) :
                           isWorkday(dailyFirstCommits[j].date, enableHolidayMode)}}
      midnightDays == Cardinality(tally.midnightDaysSet)
      totalWorkDays == IF Cardinality(workDaysSet) > 0 THEN Cardinality(workDaysSet) ELSE 1
  IN [evening |-> tally.evening,
      lateNight |-> tally.lateNight,
      midnight |-> tally.midnight,
      dawn |-> tally.dawn,
      midnightDays |-> midnightDays,
      totalWorkDays |-> totalWorkDays,
      midnightRate |-> [num |-> midnightDays * 100, den |-> totalWorkDays],
      totalWeeks |-> IF dateRange.given THEN Max2(1, dateRange.diffDays \div 7)
                     ELSE Max2(1, totalWorkDays \div 5),
      totalMonths |-> IF dateRange.given THEN Max2(1, dateRange.diffDays \div 30)
                      ELSE Max2(1, totalWorkDays \div 22)]

(* ------------------------------ team analysis -------------------------- *)

\* statistics.calculatePercentile on a sorted list. The result is kept times
\* 100: the index percentile / 100 * (n - 1) has the integer part `lower` and
\* the fractional part weight / 100, and the value is
\* sorted[lower] * (1 - weight / 100) + sorted[upper] * weight / 100.
calculatePercentile(sortedValues, percentile) ==
  IF Len(sortedValues) = 0 THEN 0
  ELSE LET index == percentile * (Len(sortedValues) - 1)
           lower == index \div 100
           weight == index % 100
           upper == IF weight = 0 THEN lower ELSE lower + 1
       IN IF lower = upper THEN 100 * sortedValues[lower + 1]
          ELSE sortedValues[lower + 1] * (100 - weight) + sortedValues[upper + 1] * weight

\* the default of the parameter baselineEndHour, 18 o'clock, in the unit of
\* calculatePercentile over hours in hundredths
DEFAULT_BASELINE_END_HOUR == 18 * 100 * 100

\* UserAnalyzer.classifyIntensityLevel with a day that ends exactly at the
\* baseline counted as normal
classifyIntensityLevelAtBaseline(endHour, baselineEndHour) ==
  LET normalThreshold == baselineEndHour
      moderateThreshold == baselineEndHour + 2 * 100 * 100
  IN IF 100 * endHour <= normalThreshold THEN "normal"
     ELSE IF 100 * endHour < moderateThreshold THEN "moderate"
     ELSE "heavy"

\* UserAnalyzer.classifyIntensityLevel; endHour in hundredths of an hour,
\* baselineEndHour in the unit of calculatePercentile
classifyIntensityLevel(endHour, baselineEndHour) ==
  LET normalThreshold == baselineEndHour
      moderateThreshold == baselineEndHour + 2 * 100 * 100
  IN IF 100 * endHour < normalThreshold THEN "normal"
     ELSE IF 100 * endHour < moderateThreshold THEN "moderate"
     ELSE "heavy"

\* UserAnalyzer.analyzeUser as far as analyzeTeam reads its result: the work
\* window, the index, and the level against the default baseline
analyzeUser(author, endHour, index996) ==
  [author |-> author,
   workingHours |-> [endHour |-> endHour],
   index996 |-> index996,
   intensityLevel |-> classifyIntensityLevel(endHour, DEFAULT_BASELINE_END_HOUR)]

\* userPatterns.filter((u) => u.intensityLevel === level)
usersOfLevel(userPatterns, level) ==
  SelectSeq(userPatterns, LAMBDA u : u.intensityLevel = level)

\* UserAnalyzer.assessTeamHealth with the gap between the two indices taken in
\* either direction
assessTeamHealthEitherDirection(overallIndex, teamMedianIndex, distribution) ==
  LET heavyCount == Len(distribution.heavy)
      totalCount == Len(distribution.normal) + Len(distribution.moderate)
                    + Len(distribution.heavy)
      gap == 100 * overallIndex - teamMedianIndex
  IN [overallIndex |-> overallIndex,
      teamMedianIndex |-> teamMedianIndex,
      conclusion |-> IF teamMedianIndex < 40 * 100 THEN "good"
                     ELSE IF teamMedianIndex < 60 * 100 THEN "fair"
                     ELSE IF teamMedianIndex < 80 * 100 THEN "common"
                     ELSE "intense",
      warning |-> [heavyMembers |-> heavyCount > 0 /\ 10 * heavyCount < 3 * totalCount,
                   indexGap |-> gap > 20 * 100 \/ gap < -(20 * 100)]]

\* UserAnalyzer.assessTeamHealth; teamMedianIndex times 100; the conclusion is
\* one of four fixed sentences, the warning is made of up to two parts
assessTeamHealth(overallIndex, teamMedianIndex, distribution) ==
  LET heavyCount == Len(distribution.heavy)
      totalCount == Len(distribution.normal) + Len(distribution.moderate)
                    + Len(distribution.heavy)
  IN [overallIndex |-> overallIndex,
      teamMedianIndex |-> teamMedianIndex,
      conclusion |-> IF teamMedianIndex < 40 * 100 THEN "good"
                     ELSE IF teamMedianIndex < 60 * 100 THEN "fair"
                     ELSE IF teamMedianIndex < 80 * 100 THEN "common"
                     ELSE "intense",
      warning |-> [heavyMembers |-> heavyCount > 0 /\ 10 * heavyCount < 3 * totalCount,
                   indexGap |-> 100 * overallIndex - teamMedianIndex > 20 * 100]]

\* the statistics of analyzeTeam over the sorted indices (u.index996 || 0);
\* without a contributor the mean is 0 / 0 and the range is undefined
teamStatistics(index996List) ==
  [median996 |-> calculatePercentile(index996List, 50),
   mean996 |-> [num |-> SumRange(index996List, 1, Len(index996List)),
                den |-> Len(index996List)],
   range |-> IF Len(index996List) = 0 THEN <<>>
             ELSE <<index996List[1], index996List[Len(index996List)]>>,
   percentiles |-> [p25 |-> calculatePercentile(index996List, 25),
                    p50 |-> calculatePercentile(index996List, 50),
                    p75 |-> calculatePercentile(index996List, 75),
                    p90 |-> calculatePercentile(index996List, 90)]]

\* the rest of analyzeTeam once the baseline is known: the levels are updated
\* in place, coreContributors is the updated array
teamAnalysisFor(userPatterns, baselineEndHour, filterThreshold, totalContributors, overallIndex) ==
  LET updated == [i \in 1..Len(userPatterns) |->
                    [userPatterns[i] EXCEPT !.intensityLevel =
                       classifyIntensityLevel(userPatterns[i].workingHours.endHour,
                                              baselineEndHour)]]
      distribution == [normal |-> usersOfLevel(updated, "normal"),
                       moderate |-> usersOfLevel(updated, "moderate"),
                       heavy |-> usersOfLevel(updated, "heavy")]
      statistics == teamStatistics(
                      SortAscending([i \in 1..Len(updated) |-> updated[i].index996]))
  IN [coreContributors |-> updated,
      totalAnalyzed |-> Len(updated),
      totalContributors |-> totalContributors,
      filterThreshold |-> filterThreshold,
      baselineEndHour |-> baselineEndHour,
      distribution |-> distribution,
      statistics |-> statistics,
      healthAssessment |-> assessTeamHealth(overallIndex, statistics.median996,
                                            distribution)]

\* the end hours of the contributors with a work window, sorted
endTimesForBaseline(userPatterns) ==
  SortAscending(
    LET withWindow == SelectSeq(userPatterns, LAMBDA u : u.workingHours.endHour # 0)
    IN [i \in 1..Len(withWindow) |-> withWindow[i].workingHours.endHour])

\* analyzeTeam with the baseline taken over the contributors whose current
\* level is not heavy
analyzeTeamBaselineOfLighter(userPatterns, filterThreshold, totalContributors, overallIndex) ==
  LET endTimes == endTimesForBaseline(
                    SelectSeq(userPatterns, LAMBDA u : u.intensityLevel # "heavy"))
      baselineEndHour == IF Len(endTimes) > 0 THEN calculatePercentile(endTimes, 50)
                         ELSE DEFAULT_BASELINE_END_HOUR
  IN teamAnalysisFor(userPatterns, baselineEndHour, filterThreshold, totalContributors,
                     overallIndex)

\* UserAnalyzer.analyzeTeam
analyzeTeam(userPatterns, filterThreshold, totalContributors, overallIndex) ==
  LET endTimes == endTimesForBaseline(userPatterns)
      baselineEndHour == IF Len(endTimes) > 0 THEN calculatePercentile(endTimes, 50)
                         ELSE DEFAULT_BASELINE_END_HOUR
  IN teamAnalysisFor(userPatterns, baselineEndHour, filterThreshold, totalContributors,
                     overallIndex)

(* --------------------------- contributor analysis ---------------------- *)

\* UserAnalyzer.calculateMedian, kept times 2 (the mean of the two middle
\* values of an even number of values may end in .5)
calculateMedian(values) ==
  IF Len(values) = 0 THEN 0
  ELSE LET sorted == SortAscending(values)
           mid == Len(sorted) \div 2
       IN IF Len(sorted) % 2 = 0 THEN sorted[mid] + sorted[mid + 1]
          ELSE 2 * sorted[mid + 1]

\* an object without properties
EmptyObject == [property \in {} |-> 0]

\* UserAnalyzer.calculateAverageWorkTimes reporting a median as soon as either
\* list of samples is long enough
calculateAverageWorkTimesEither(dailyFirstCommits, dailyLatestCommits) ==
  LET minDays == 10
      minCommits == 20
      hasEnoughStartData == Len(dailyFirstCommits) >= minDays
                            \/ Len(dailyFirstCommits) >= minCommits
      hasEnoughEndData == Len(dailyLatestCommits) >= minDays
                          \/ Len(dailyLatestCommits) >= minCommits
      startMinutes == [i \in 1..Len(dailyFirstCommits) |->
                         dailyFirstCommits[i].minutesFromMidnight]
      endMinutes == [i \in 1..Len(dailyLatestCommits) |->
                       dailyLatestCommits[i].minutesFromMidnight]
  IN IF ~hasEnoughStartData /\ ~hasEnoughEndData THEN EmptyObject
     ELSE ("avgStartTimeMedian" :> calculateMedian(startMinutes))
          @@ ("avgEndTimeMedian" :> calculateMedian(endMinutes))
          @@ ("validDays" :> Min2(Len(dailyFirstCommits), Len(dailyLatestCommits)))

\* UserAnalyzer.calculateAverageWorkTimes: the object with the properties that
\* were assigned; a median is in units of 1/120 hour (twice the minutes)
calculateAverageWorkTimes(dailyFirstCommits, dailyLatestCommits) ==
  LET minDays == 10
      minCommits == 20
      hasEnoughStartData == Len(dailyFirstCommits) >= minDays
                            \/ Len(dailyFirstCommits) >= minCommits
      hasEnoughEndData == Len(dailyLatestCommits) >= minDays
                          \/ Len(dailyLatestCommits) >= minCommits
      startMinutes == [i \in 1..Len(dailyFirstCommits) |->
                         dailyFirstCommits[i].minutesFromMidnight]
      endMinutes == [i \in 1..Len(dailyLatestCommits) |->
                       dailyLatestCommits[i].minutesFromMidnight]
  IN IF ~hasEnoughStartData /\ ~hasEnoughEndData THEN EmptyObject
     ELSE (IF hasEnoughStartData
           THEN "avgStartTimeMedian" :> calculateMedian(startMinutes)
           ELSE EmptyObject)
          @@ (IF hasEnoughEndData
              THEN "avgEndTimeMedian" :> calculateMedian(endMinutes)
              ELSE EmptyObject)
          @@ ("validDays" :> Min2(Len(dailyFirstCommits), Len(dailyLatestCommits)))

\* UserAnalyzer.buildWorkTimeData; startHour and endHour in hundredths of an
\* hour; a bucket whose label does not parse compares false and is overtime
buildWorkTimeData(timeDistribution, dayDistribution, startHour, endHour) ==
  LET hour == [i \in 1..Len(timeDistribution) |-> ParseInt(timeDistribution[i].time)]
      isNormal == [i \in 1..Len(timeDistribution) |->
                     ~hour[i].nan /\ hour[i].v * 100 >= startHour
                     /\ hour[i].v * 100 < endHour]
      normalWork == [i \in 1..Len(timeDistribution) |->
                       IF isNormal[i] THEN timeDistribution[i].count ELSE 0]
      overtime == [i \in 1..Len(timeDistribution) |->
                     IF isNormal[i] THEN 0 ELSE timeDistribution[i].count]
      day == [i \in 1..Len(dayDistribution) |-> ParseInt(dayDistribution[i].time)]
      workdayCommits == [i \in 1..Len(dayDistribution) |->
                           IF ~day[i].nan /\ day[i].v >= 1 /\ day[i].v <= 5
                           THEN dayDistribution[i].count ELSE 0]
      weekendCommits == [i \in 1..Len(dayDistribution) |->
                           IF ~day[i].nan /\ (day[i].v = 6 \/ day[i].v = 7)
                           THEN dayDistribution[i].count ELSE 0]
  IN [workHourPl |-> <<SumRange(normalWork, 1, Len(timeDistribution)),
                       SumRange(overtime, 1, Len(timeDistribution))>>,
      workWeekPl |-> <<SumRange(workdayCommits, 1, Len(dayDistribution)),
                       SumRange(weekendCommits, 1, Len(dayDistribution))>>,
      hourData |-> timeDistribution]

\* UserAnalyzer.calculateOvertimeStats: Math.round(totalOvertime * 0.8)
calculateOvertimeStats(timeDistribution, startHour, endHour) ==
  LET hour == [i \in 1..Len(timeDistribution) |-> ParseInt(timeDistribution[i].time)]
      counts == [i \in 1..Len(timeDistribution) |->
                   IF ~hour[i].nan /\ (hour[i].v * 100 < startHour
                                       \/ hour[i].v * 100 >= endHour)
                   THEN timeDistribution[i].count ELSE 0]
      totalOvertime == SumRange(counts, 1, Len(timeDistribution))
      workdayOvertime == (8 * totalOvertime + 5) \div 10
  IN [workdayOvertime |-> workdayOvertime,
      weekendOvertime |-> totalOvertime - workdayOvertime,
      totalOvertime |-> totalOvertime]

\* UserAnalyzer.analyzeUser on the collected data of a contributor, given the
\* outcome of the backward scan over the contributor's hour series; no
\* baseline is passed, so the level is taken against the default
analyzeUserData(userData, observedEndWindow) ==
  LET workingHours == detectWorkingHours(<<>>, observedEndWindow)
      avgTimes == calculateAverageWorkTimes(userData.dailyFirstCommits,
                                            userData.dailyLatestCommits)
      workTimeData == buildWorkTimeData(userData.timeDistribution,
                                        userData.dayDistribution,
                                        workingHours.startHour, workingHours.endHour)
      result996 == calculate996Index(workTimeData)
  IN [author |-> userData.contributor,
      timeDistribution |-> userData.timeDistribution,
      workingHours |-> workingHours,
      avgTimes |-> avgTimes,
      index996 |-> result996.index996,
      overtimeStats |-> calculateOvertimeStats(userData.timeDistribution,
                                               workingHours.startHour,
                                               workingHours.endHour),
      intensityLevel |-> classifyIntensityLevel(workingHours.endHour,
                                                DEFAULT_BASELINE_END_HOUR)]

(* ------------------------------ workday checker ------------------------ *)

\* a promise that was fulfilled with a value, having looked up `consulted`
Fulfilled(value, consulted) ==
  [state |-> "fulfilled", value |-> value, consulted |-> consulted]

\* a promise that was rejected
Rejected(consulted) == [state |-> "rejected", value |-> <<>>, consulted |-> consulted]

\* what a call of the holiday calendar does: it returns a boolean or throws
Returns(value) == [throws |-> FALSE, value |-> value]

Throws == [throws |-> TRUE, value |-> FALSE]

\* calendar.isWorkday(region, dateStr) of the holiday calendar; it throws for
\* a date it has no data for
calendarIsWorkday(date) ==
  IF date.calendar = "unknown" THEN Throws
  ELSE IF date.calendar = "holiday" THEN Returns(FALSE)
  ELSE IF date.calendar = "makeup" THEN Returns(TRUE)
  ELSE Returns(date.dayOfWeek >= 1 /\ date.dayOfWeek <= 5)

\* calendar.isHoliday(region, dateStr) of the holiday calendar
calendarIsHoliday(date) ==
  IF date.calendar = "unknown" THEN Throws
  ELSE IF date.calendar = "holiday" THEN Returns(TRUE)
  ELSE IF date.calendar = "makeup" THEN Returns(FALSE)
  ELSE Returns(date.dayOfWeek = 0 \/ date.dayOfWeek = 6)

\* the promise of WorkdayChecker.isWorkday without the try / catch around the
\* call of the calendar
isWorkdayCallUncaught(date, enabled) ==
  IF ~enabled THEN Fulfilled(fallbackIsWorkday(date), {})
  ELSE IF calendarIsWorkday(date).throws THEN Rejected({date})
  ELSE Fulfilled(calendarIsWorkday(date).value, {date})

\* the promise of WorkdayChecker.isWorkday
isWorkdayCall(date, enabled) ==
  IF ~enabled THEN Fulfilled(fallbackIsWorkday(date), {})
  ELSE IF calendarIsWorkday(date).throws
       THEN Fulfilled(fallbackIsWorkday(date), {date})
       ELSE Fulfilled(calendarIsWorkday(date).value, {date})

\* the promise of WorkdayChecker.isHoliday
isHolidayCall(date, enabled) ==
  IF ~enabled THEN Fulfilled(fallbackIsHoliday(date), {})
  ELSE IF calendarIsHoliday(date).throws
       THEN Fulfilled(fallbackIsHoliday(date), {date})
       ELSE Fulfilled(calendarIsHoliday(date).value, {date})

\* Promise.all over the promises of the dates: rejected when one of them is,
\* else fulfilled with the values in the order of the dates
promiseAll(promises) ==
  LET consulted == UNION {promises[i].consulted : i \in 1..Len(promises)}
  IN IF \E i \in 1..Len(promises) : promises[i].state = "rejected"
     THEN Rejected(consulted)
     ELSE Fulfilled([i \in 1..Len(promises) |-> promises[i].value], consulted)

\* WorkdayChecker.isWorkdayBatch
isWorkdayBatch(dates, enabled) ==
  promiseAll([i \in 1..Len(dates) |-> isWorkdayCall(dates[i], enabled)])

\* WorkdayChecker.isHolidayBatch
isHolidayBatch(dates, enabled) ==
  promiseAll([i \in 1..Len(dates) |-> isHolidayCall(dates[i], enabled)])

(* ------------------------- time series collection ---------------------- *)

\* time.match(/^(\d{2}):(\d{2})$/)
MatchesHourMinute(time) ==
  /\ Len(time) = 5
  /\ IsDigit(time[1]) /\ IsDigit(time[2])
  /\ time[3] = ":"
  /\ IsDigit(time[4]) /\ IsDigit(time[5])

\* the half-hour a "HH:MM" time is put in: minutes 0-29 to :00, 30-59 to :30;
\* a time of another shape is kept as it is
toHalfHour(time) ==
  IF MatchesHourMinute(time)
  THEN LET minute == ParseInt(<<time[4], time[5]>>)
       IN <<time[1], time[2], ":">> \o (IF minute.v < 30 THEN <<"0", "0">> ELSE <<"3", "0">>)
  ELSE time

\* the day 1-7 a %w value 0-6 is put in (0, Sunday, becomes 7); another value
\* is kept as it is
toDay(time) ==
  LET dayW == ParseInt(time)
  IN IF ~dayW.nan /\ dayW.v >= 0 /\ dayW.v <= 6
     THEN <<Digit(IF dayW.v = 0 THEN 7 ELSE dayW.v)>>
     ELSE time

\* timeCounts after one more line counted under `time`: the count of an entry
\* already there goes up by one, else an entry with count 1 is pushed
countTime(timeCounts, time) ==
  IF \E i \in 1..Len(timeCounts) : timeCounts[i].time = time
  THEN [i \in 1..Len(timeCounts) |->
          IF timeCounts[i].time = time
          THEN [time |-> time, count |-> timeCounts[i].count + 1]
          ELSE timeCounts[i]]
  ELSE Append(timeCounts, [time |-> time, count |-> 1])

\* the loop of parseTimeData over the lines, each split at '|' into its parts
RECURSIVE countLines(_, _, _)
countLines(lines, type, timeCounts) ==
  IF lines = <<>> THEN timeCounts
  ELSE LET parts == lines[1]
           time == IF Len(parts) < 3 THEN <<>>
                   ELSE IF type = "half-hour" THEN toHalfHour(parts[2])
                   ELSE toDay(parts[2])
       IN countLines(Tail(lines), type,
                     IF Len(time) = 0 THEN timeCounts ELSE countTime(timeCounts, time))

\* data.find((item) => item.time === key) and its count, 0 without such an item
countOf(data, key) ==
  IF \E i \in 1..Len(data) : data[i].time = key
  THEN data[CHOOSE i \in 1..Len(data) :
              data[i].time = key /\ \A j \in 1..(i - 1) : data[j].time # key].count
  ELSE 0

\* fillMissingHalfHours returning the counted entries as they are
fillMissingHalfHoursCountedOnly(data) == data

\* TimeCollector.fillMissingHalfHours
fillMissingHalfHours(data) ==
  [k \in 1..48 |-> [time |-> HalfHourLabel(k - 1), count |-> countOf(data, HalfHourLabel(k - 1))]]

\* TimeCollector.fillMissingDays
fillMissingDays(data) ==
  [i \in 1..7 |-> [time |-> <<Digit(i)>>, count |-> countOf(data, <<Digit(i)>>)]]

\* TimeCollector.parseTimeData without an author or a timezone filter
parseTimeData(lines, type) ==
  IF type = "half-hour" THEN fillMissingHalfHours(countLines(lines, type, <<>>))
  ELSE fillMissingDays(countLines(lines, type, <<>>))

\* UserPatternCollector.getUserTimeDistribution without a timezone filter:
\* the lines that match HH:MM are counted under their hour, then the hours
\* 0..23 are listed
getUserTimeDistribution(lines) ==
  LET hourOf(parts) == IF Len(parts) >= 2 /\ MatchesHourMinute(parts[1])
                       THEN ParseInt(<<parts[1][1], parts[1][2]>>).v
                       ELSE -1
      hourCounts(hour) == Cardinality({i \in 1..Len(lines) : hourOf(lines[i]) = hour})
  IN [h \in 1..24 |-> [time |-> HourLabel(h - 1), count |-> hourCounts(h - 1)]]

\* the count the repositories add to the entry `key` of the map
mergedCount(dataList, field, key) ==
  LET perRepo == [r \in 1..Len(dataList) |->
                    SumCounts(SelectSeq(dataList[r][field], LAMBDA item : item.time = key))]
  IN SumRange(perRepo, 1, Len(dataList))

\* GitDataMerger.mergeByHour
mergeByHour(dataList) ==
  [k \in 1..48 |-> [time |-> HalfHourLabel(k - 1),
                    count |-> mergedCount(dataList, "byHour", HalfHourLabel(k - 1))]]

\* GitDataMerger.mergeByDay
mergeByDay(dataList) ==
  [i \in 1..7 |-> [time |-> <<Digit(i)>>,
                   count |-> mergedCount(dataList, "byDay", <<Digit(i)>>)]]

\* GitDataMerger.merge, as far as the two time series go; the data of a single
\* repository is returned as it is
merge(dataList) ==
  IF Len(dataList) = 1 THEN dataList[1]
  ELSE [byHour |-> mergeByHour(dataList), byDay |-> mergeByDay(dataList)]

(* ------------------------------ command line --------------------------- *)

\* the commands registered with the program besides the root action
RegisteredCommands == {"help"}

\* the options without a value among those the root command declares
FlagOptions == {"--self"}

\* the operands of an argument list: the tokens that are not options
operandsOf(args) == SelectSeq(args, LAMBDA token : token \notin FlagOptions)

\* an outcome of CLIManager.parse: what was printed as error (the messages
\* are named in English here), the status the process exited with ("none" if
\* it went on), and the analysis started
Outcome(handler, errorMessage, exitStatus, analysis) ==
  [handler |-> handler, errorMessage |-> errorMessage, exitStatus |-> exitStatus,
   analysis |-> analysis]

NoAnalysisStarted == [mode |-> "none", paths |-> <<>>]

\* the listener of 'command:*' registered by setupErrorHandling
unknownCommandListener(operands) ==
  Outcome("command:*", <<"unknown command", operands[1]>>, 1, NoAnalysisStarted)

\* CLIManager.handleSmartMode; fileSystem tells of a path whether it is
\* missing, a repository, or a directory with 0, 1 or 2 repositories below it
handleSmartMode(paths, fileSystem) ==
  LET targetPaths == IF Len(paths) > 0 THEN paths ELSE <<".">>
      singlePath == targetPaths[1]
  IN IF Len(targetPaths) > 1
     THEN Outcome("action", <<>>, "none", [mode |-> "multi", paths |-> targetPaths])
     ELSE IF fileSystem[singlePath] = "missing"
     THEN Outcome("action", <<"path does not exist", singlePath>>, 1, NoAnalysisStarted)
     ELSE IF fileSystem[singlePath] = "repository"
     THEN Outcome("action", <<>>, "none", [mode |-> "analyze", paths |-> <<singlePath>>])
     ELSE IF fileSystem[singlePath] = "directory0"
     THEN Outcome("action", <<"no repository found">>, 1, NoAnalysisStarted)
     ELSE IF fileSystem[singlePath] = "directory1"
     THEN Outcome("action", <<>>, "none",
                  [mode |-> "analyze", paths |-> <<<<singlePath, "sub1">>>>])
     ELSE Outcome("action", <<>>, "none",
                  [mode |-> "multi", paths |-> <<<<singlePath, "sub1">>, <<singlePath, "sub2">>>>])

\* program.parse(argv) of a program that has a root action with the variadic
\* argument [paths...], the command help, and a listener of 'command:*': a
\* first operand that names a command goes to the command; otherwise the root
\* action takes all operands as its paths, and 'command:*' is emitted only by
\* a program without a root action
parse(args, fileSystem, hasRootAction) ==
  LET operands == operandsOf(args)
  IN IF Len(operands) > 0 /\ operands[1] \in RegisteredCommands
     THEN Outcome("help", <<>>, "none", NoAnalysisStarted)
     ELSE IF hasRootAction THEN handleSmartMode(operands, fileSystem)
     ELSE IF Len(operands) > 0 THEN unknownCommandListener(operands)
     ELSE Outcome("help", <<>>, 1, NoAnalysisStarted)

(* --------------------------- multi-repository run ---------------------- *)

\* the GitLogData collected from a repository
CollectedData(repo) == [repository |-> repo.name]

\* the record of a repository whose analysis succeeded
SuccessRecord(repo) == [repo |-> repo.name, data |-> CollectedData(repo), status |-> "success"]

\* the record of a repository whose analysis threw
FailedRecord(repo) == [repo |-> repo.name, data |-> [repository |-> "none"], status |-> "failed"]

\* dataList.filter((_, index) => repoRecords[index].status === 'success')
successfulDataOf(list, records) ==
  LET kept == {index \in 1..Len(list) : records[index].status = "success"}
      position(k) == CHOOSE index \in kept : Cardinality({j \in kept : j <= index}) = k
  IN [k \in 1..Cardinality(kept) |-> list[position(k)]]

(* -------------------------------- inputs ------------------------------- *)

\* the hours on which the input series may carry an extra bucket count
ExtraHours == {8, 13, 20}

\* commits of an hour of the base pattern: none, or one in each office hour
PatternCount(pattern, hour) ==
  IF pattern = "office" /\ hour >= 9 /\ hour <= 17 THEN 1 ELSE 0

\* TimeCollector.fillMissingHalfHours: 48 zero-filled half-hour buckets; the
\* pattern sits on the ":00" buckets and bucket `extra` carries `count` more
HalfHourSeries(pattern, extra, count) ==
  [i \in 1..48 |->
     [time |-> HalfHourLabel(i - 1),
      count |-> (IF (i - 1) % 2 = 0 THEN PatternCount(pattern, (i - 1) \div 2) ELSE 0)
                + (IF i - 1 = extra THEN count ELSE 0)]]

\* UserPatternCollector.getUserTimeDistribution: 24 zero-filled hour buckets
HourSeries(pattern, extra, count) ==
  [i \in 1..24 |->
     [time |-> HourLabel(i - 1),
      count |-> PatternCount(pattern, i - 1) + (IF i - 1 = extra THEN count ELSE 0)]]

\* the half-hour series carry the extra count on the ":30" bucket of the hour
HourInputs ==
  {HalfHourSeries(p, 2 * h + 1, c) :
     p \in {"zeros", "office"}, h \in ExtraHours, c \in 0..MaxExtra}
  \cup {HourSeries("office", h, c) : h \in ExtraHours, c \in 0..MaxExtra}

\* TimeCollector.fillMissingDays: 7 zero-filled buckets "1".."7" (Monday to
\* Sunday) with the weekday commits on Monday and the weekend ones on Sunday
DaySeries(weekday, weekend) ==
  [i \in 1..7 |->
     [time |-> <<Digit(i)>>,
      count |-> IF i = 1 THEN weekday ELSE IF i = 7 THEN weekend ELSE 0]]

\* the per-day commit counts of the same commits: a Monday and a Sunday the
\* holiday calendar knows as `calendar`
DailyCounts(weekday, weekend, calendar) ==
  (IF weekday > 0
   THEN <<[date |-> [dayOfWeek |-> 1, calendar |-> "ordinary"], count |-> weekday]>>
   ELSE <<>>)
  \o (IF weekend > 0
      THEN <<[date |-> [dayOfWeek |-> 0, calendar |-> calendar], count |-> weekend]>>
      ELSE <<>>)

\* day-of-week data without per-day counts, or with them and the Sunday a
\* make-up workday, the calendar consulted or not
DayInputs ==
  {[byDay |-> DaySeries(a, b), dailyCommitCounts |-> <<>>, enableHolidayMode |-> TRUE] :
     a \in {0, 1}, b \in 0..MaxDayCount}
  \cup {[byDay |-> DaySeries(a, b), dailyCommitCounts |-> DailyCounts(a, b, "makeup"),
          enableHolidayMode |-> e] :
          a \in {0, 1}, b \in 0..MaxDayCount, e \in BOOLEAN}

\* per-day earliest commits: none, one Monday 10:40, or a too-early Monday
\* sample (dropped) with a Tuesday 08:00
FirstCommitInputs ==
  {<<>>,
   <<[minutesFromMidnight |-> 640, weekDay |-> 1]>>,
   <<[minutesFromMidnight |-> 200, weekDay |-> 1],
     [minutesFromMidnight |-> 480, weekDay |-> 2]>>}

RawData(h, d, f) ==
  [byHour |-> h, byDay |-> d.byDay, dailyCommitCounts |-> d.dailyCommitCounts,
   dailyFirstCommits |-> f]

\* the values of --hours: absent, or one of these strings
OverrideStrings ==
  {<<>>,
   <<"9", "-", "1", "8">>,
   <<"9", ".", "5", "-", "1", "8", ".", "5">>,
   <<"8", "-", "2", "0">>,
   <<"0", "-", "2", "4">>,
   <<"9", "x", "-", "1", "8">>,
   <<"9">>,
   <<"9", "-", "1", "8", "-", "2", "0">>,
   <<"-", "1", "-", "5">>,
   <<"x", "-", "1", "8">>,
   <<"9", "-">>,
   <<"1", "8", "-", "9">>,
   <<"9", "-", "9">>,
   <<"2", "4", "-", "2", "5">>,
   <<"2", "3", ".", "5", "-", "2", "4">>,
   <<"9", "-", "2", "5">>}

NoOverride == [given |-> FALSE, text |-> <<>>]

\* the option, the first-commit samples and the outcome of the backward scan
\* of a call of parseGitData: an override (and no samples; the scan runs only
\* for the empty override), or no override and one of the sample lists
ParseInputs ==
  {[customWorkHours |-> [given |-> TRUE, text |-> t], dailyFirstCommits |-> <<>>,
    observed |-> o] :
     t \in OverrideStrings \ {<<>>},
     o \in {w \in ObservedEndWindows(standardEndHourOf(<<>>)) : w.method = "standard-shift"}}
  \cup {[customWorkHours |-> [given |-> TRUE, text |-> <<>>], dailyFirstCommits |-> <<>>,
          observed |-> o] :
          o \in ObservedEndWindows(standardEndHourOf(<<>>))}
  \cup UNION {{[customWorkHours |-> NoOverride, dailyFirstCommits |-> f, observed |-> o] :
                 o \in ObservedEndWindows(standardEndHourOf(f))} : f \in FirstCommitInputs}

\* the WorkTimeData handed directly to calculate996Index: y normal-hour commits
\* at 10:00, x overtime commits at 22:00, m weekday and n weekend commits
CommitCounts == 0..MaxCommits \cup {100}

WeekCounts == 0..MaxWeek \cup {100}

CalcHourData(y, x) ==
  [i \in 1..24 |->
     [time |-> HourLabel(i - 1),
      count |-> IF i - 1 = 10 THEN y ELSE IF i - 1 = 22 THEN x ELSE 0]]

CalcInputs ==
  {[workHourPl |-> <<y, x>>, workWeekPl |-> <<m, n>>, hourData |-> CalcHourData(y, x)] :
     y \in CommitCounts, x \in CommitCounts, m \in WeekCounts, n \in WeekCounts}

\* the inputs of the classifier
ContributorCounts == 0..MaxContributors \cup {100, 249, 250, 1000}

RegularityChecks ==
  [morningUptrend : BOOLEAN, afternoonPeak : BOOLEAN, eveningDowntrend : BOOLEAN,
   nightLowActivity : BOOLEAN]

NoChecks ==
  [morningUptrend |-> FALSE, afternoonPeak |-> FALSE, eveningDowntrend |-> FALSE,
   nightLowActivity |-> FALSE]

\* <<weekday commits, weekend commits>>: weekend shares 0, 14, 15, 20, 30 %
WeekendInputs == {<<0, 0>>, <<100, 0>>, <<86, 14>>, <<85, 15>>, <<80, 20>>, <<70, 30>>}

\* <<daytime commits, evening commits>>: evening shares 0, 20, 25 %
MoonlightingInputs == {<<0, 0>>, <<4, 1>>, <<3, 1>>}

ClassifierInputs ==
  {[noData |-> FALSE, checks |-> c, workWeekPl |-> w, dayTimeCommits |-> t[1],
    nightTimeCommits |-> t[2], contributors |-> k] :
     c \in RegularityChecks, w \in WeekendInputs, t \in MoonlightingInputs,
     k \in ContributorCounts}
  \cup {[noData |-> TRUE, checks |-> NoChecks, workWeekPl |-> w, dayTimeCommits |-> 0,
          nightTimeCommits |-> 0, contributors |-> k] :
          w \in WeekendInputs, k \in ContributorCounts}

\* TimezoneCollector.collectTimezones: the offsets sorted by descending count,
\* totalCommits the number of log lines; no commit, or a dominant offset and
\* possibly a second one
DominantCommits == {3, 99, 199}

TimezoneInputs ==
  {[totalCommits |-> 0, timezones |-> <<>>]}
  \cup {[totalCommits |-> d + minor,
          timezones |-> <<[offset |-> "+0800", count |-> d]>>
                        \o (IF minor > 0 THEN <<[offset |-> "-0700", count |-> minor]>>
                            ELSE <<>>)] :
          d \in DominantCommits, minor \in 0..MaxMinorCommits}

\* commits of an hour of a timezone hour series: `spread` commits in every
\* fifth hour ("sparse": every 5-hour window holds some) or in each of the
\* hours 3..21 ("day": the night window 22..2 is empty), and `bulk` more at 10
SpreadCount(pattern, spread, bulk, hour) ==
  (IF pattern = "sparse" /\ hour % 5 = 0 THEN spread
   ELSE IF pattern = "day" /\ hour >= 3 /\ hour <= 21 THEN spread
   ELSE 0)
  + (IF hour = 10 THEN bulk ELSE 0)

\* the 48 half-hour buckets (the spread on ":30", the bulk on ":00") or the 24
\* hour buckets of the series
TimezoneHalfHourSeries(pattern, spread, bulk) ==
  [i \in 1..48 |->
     [time |-> HalfHourLabel(i - 1),
      count |-> IF (i - 1) % 2 = 1 THEN SpreadCount(pattern, spread, 0, (i - 1) \div 2)
                ELSE SpreadCount("none", 0, bulk, (i - 1) \div 2)]]

TimezoneHourSeries(pattern, spread, bulk) ==
  [i \in 1..24 |->
     [time |-> HourLabel(i - 1), count |-> SpreadCount(pattern, spread, bulk, i - 1)]]

BulkCommits == {0, 95, 195}

TimezoneHourInputs ==
  {TimezoneHalfHourSeries(p, s, b) :
     p \in {"sparse", "day"}, s \in 0..MaxSpread, b \in BulkCommits}
  \cup {TimezoneHourSeries(p, s, b) :
          p \in {"sparse", "day"}, s \in 0..MaxSpread, b \in BulkCommits}

\* the (weekday, hour) cells of the day-hour statistics that carry commits:
\* Monday, Tuesday, Friday and Saturday at 18 and 19 o'clock
DayHourCells ==
  <<[weekday |-> 1, hour |-> 18], [weekday |-> 1, hour |-> 19],
    [weekday |-> 2, hour |-> 18], [weekday |-> 2, hour |-> 19],
    [weekday |-> 5, hour |-> 18], [weekday |-> 5, hour |-> 19],
    [weekday |-> 6, hour |-> 18], [weekday |-> 6, hour |-> 19]>>

\* getCommitsByDayAndHour: one entry per (weekday, hour) that has commits
DayHourCommits(counts) ==
  SelectSeq([i \in 1..Len(DayHourCells) |->
               [weekday |-> DayHourCells[i].weekday, hour |-> DayHourCells[i].hour,
                count |-> counts[i]]],
            LAMBDA commit : commit.count > 0)

\* the detected work time of the overtime analyses: the day ends at 18:00 or 18:30
OvertimeWorkTimes == {[startHour |-> 900, endHour |-> e] : e \in {1800, 1850}}

\* parseGitData asks for the weekday distribution only with day-hour entries
WeekdayOvertimeInputs ==
  {[kind |-> "weekday", dayHourCommits |-> DayHourCommits(counts), workTime |-> w] :
     counts \in [1..Len(DayHourCells) -> 0..MaxHourCount] \ {[i \in 1..Len(DayHourCells) |-> 0]},
     w \in OvertimeWorkTimes}

\* a day with k distinct active hours, from 10 o'clock on
ActiveHours(k) == 10..(9 + k)

\* getDailyCommitHours: at most one entry per date, sorted by date; a Wednesday
\* (ordinary or a legal holiday), a Saturday (ordinary or a make-up workday)
\* and a Sunday (ordinary or unknown to the calendar), each with some hours
DayEntries(day, dayOfWeek, calendars) ==
  {<<>>}
  \cup {<<[date |-> [day |-> day, dayOfWeek |-> dayOfWeek, calendar |-> c],
           hours |-> ActiveHours(k)]>> :
          c \in calendars, k \in 1..MaxActiveHours}

DailyCommitHoursInputs ==
  {wed \o sat \o sun :
     wed \in DayEntries(3, 3, {"ordinary", "holiday"}),
     sat \in DayEntries(6, 6, {"ordinary", "makeup"}),
     sun \in DayEntries(7, 0, {"ordinary", "unknown"})} \ {<<>>}

\* the holiday calendar consulted, switched off, or failing as a whole
CheckerModes ==
  {[enableHolidayMode |-> TRUE, checkerThrows |-> FALSE],
   [enableHolidayMode |-> FALSE, checkerThrows |-> FALSE],
   [enableHolidayMode |-> TRUE, checkerThrows |-> TRUE]}

\* parseGitData asks for the weekend distribution only with per-day hours
WeekendOvertimeInputs ==
  {[kind |-> "weekend", dailyCommitHours |-> days,
    enableHolidayMode |-> m.enableHolidayMode, checkerThrows |-> m.checkerThrows] :
     days \in DailyCommitHoursInputs, m \in CheckerModes}

\* the commits of a repository's log, newest first: Tuesday (day 3) at 10:00 and
\* 02:00, Monday (day 2) at 23:30, 22:10, 20:00, 18:40 and 17:30
LogCommits ==
  <<[dateKey |-> 3, hour |-> 10, minute |-> 0],
    [dateKey |-> 3, hour |-> 2, minute |-> 0],
    [dateKey |-> 2, hour |-> 23, minute |-> 30],
    [dateKey |-> 2, hour |-> 22, minute |-> 10],
    [dateKey |-> 2, hour |-> 20, minute |-> 0],
    [dateKey |-> 2, hour |-> 18, minute |-> 40],
    [dateKey |-> 2, hour |-> 17, minute |-> 30]>>

\* the log lines of a repository: a non-empty selection of the commits
LogInputs ==
  {SelectSeq([i \in 1..Len(LogCommits) |-> [line |-> LogCommits[i], kept |-> i \in keep]],
             LAMBDA l : l.kept) :
     keep \in (SUBSET (1..Len(LogCommits))) \ {{}}}

Lines(log) == [i \in 1..Len(log) |-> log[i].line]

\* the logs of the other repositories of a multi-repository run: none (a
\* single repository, nothing is merged), or one more repository
OtherLogs ==
  {<<>>,
   <<<<[dateKey |-> 2, hour |-> 23, minute |-> 30]>>>>,
   <<<<[dateKey |-> 3, hour |-> 5, minute |-> 10]>>>>}

\* the per-day earliest commits: a Monday; a make-up Sunday and a Monday; or a
\* Saturday only (no workday)
LateNightFirstCommits ==
  {<<[date |-> [day |-> 2, dayOfWeek |-> 1, calendar |-> "ordinary"],
      minutesFromMidnight |-> 540]>>,
   <<[date |-> [day |-> 1, dayOfWeek |-> 0, calendar |-> "makeup"],
      minutesFromMidnight |-> 600],
     [date |-> [day |-> 2, dayOfWeek |-> 1, calendar |-> "ordinary"],
      minutesFromMidnight |-> 540]>>,
   <<[date |-> [day |-> 0, dayOfWeek |-> 6, calendar |-> "ordinary"],
      minutesFromMidnight |-> 660]>>}

\* since and until: not given, or 45 days apart
DateRanges == {[given |-> FALSE, diffDays |-> 0], [given |-> TRUE, diffDays |-> 45]}

LateNightInputs ==
  {[kind |-> "lateNight", lines |-> Lines(log), otherLogs |-> others,
    dailyFirstCommits |-> f, workTime |-> w, dateRange |-> r,
    enableHolidayMode |-> TRUE] :
     log \in LogInputs, others \in OtherLogs, f \in LateNightFirstCommits,
     w \in OvertimeWorkTimes, r \in DateRanges}

\* the dailyLatestCommits of the raw data: the collector's records of the one
\* repository, or the merge of the records of all repositories
DailyLatestCommits(input) ==
  IF input.otherLogs = <<>> THEN getDailyLatestCommits(input.lines)
  ELSE mergeDailyLatestCommits(
         <<getDailyLatestCommits(input.lines)>>
         \o [i \in 1..Len(input.otherLogs) |-> getDailyLatestCommits(input.otherLogs[i])])

OvertimeInputs == WeekdayOvertimeInputs \cup WeekendOvertimeInputs \cup LateNightInputs

\* the detected end hours of a contributor, from 17:00 to 21:00
TeamEndHours == {1700, 1800, 1850, 1900, 2000, 2100}

\* a contributor's index follows from the end hour here: 30 before 19 o'clock,
\* 90 from then on
UserPattern(i, endHour) ==
  analyzeUser(<<"user", Digit(i)>>, endHour, IF endHour < 1900 THEN 30 ELSE 90)

\* the analysed core contributors: at least two (fewer skip the team analysis)
TeamInputs ==
  UNION {{[i \in 1..n |-> UserPattern(i, ends[i])] : ends \in [1..n -> TeamEndHours]} :
           n \in 2..MaxUsers}

\* the index of the whole project handed to analyzeTeam
OverallIndexes == {50, 60, 120}

\* the hours of the day a contributor may have committed in
UserActiveHours == {8, 10, 17, 18, 20}

\* the 24 hour buckets getUserTimeDistribution returns, labelled "00" .. "23"
UserTimeDistribution(active) ==
  [i \in 1..24 |-> [time |-> HourLabel(i - 1),
                    count |-> IF (i - 1) \in active THEN 1 ELSE 0]]

\* the 7 day buckets getUserDayDistribution returns, labelled "1" .. "7"
UserDayDistribution(weekendCommits) ==
  [i \in 1..7 |-> [time |-> <<Digit(i)>>,
                   count |-> IF i <= 5 THEN 1 ELSE IF i = 6 THEN weekendCommits ELSE 0]]

\* the numbers of days with a first (or last) commit of a contributor
SampleCounts == {0, 9, 10, 20}

\* n daily samples, ten minutes apart from `first` on
DailySamples(n, first) ==
  [i \in 1..n |-> [minutesFromMidnight |-> first + 10 * (i - 1)]]

UserInputs ==
  {[contributor |-> "a",
    timeDistribution |-> UserTimeDistribution(active),
    dayDistribution |-> UserDayDistribution(weekendCommits),
    dailyFirstCommits |-> DailySamples(firstDays, 540),
    dailyLatestCommits |-> DailySamples(lastDays, 1080)] :
     active \in SUBSET UserActiveHours, weekendCommits \in 0..1,
     firstDays \in SampleCounts, lastDays \in SampleCounts}

\* minutes of a day's first commit: before, on and after the edges of the
\* valid band 05:00-12:00, and inside it
FirstCommitMinutes == {290, 300, 530, 545, 700, 720, 730}

\* how often a first-commit time occurs among the samples
SampleRepeats == {0, 1, 5, 10}

\* k days with the first commit at `minutes`, all on the week day weekDay
RepeatedSamples(minutes, weekDay, k) ==
  [i \in 1..k |-> [minutesFromMidnight |-> minutes, weekDay |-> weekDay]]

\* the samples handed to detectWorkingHours: some days of one first-commit time
\* followed by some days of another, in either order of the two times
DetectionSamples ==
  {RepeatedSamples(a, weekDay, k) \o RepeatedSamples(b, 3, m) :
     a \in FirstCommitMinutes, b \in FirstCommitMinutes, weekDay \in {1, 6},
     k \in {0, 1, 2}, m \in SampleRepeats}

\* what the backward scan may return: a breakpoint, or no breakpoint with the
\* standard shift or with some other end hour
ScanOutcomes(standardEndHour) ==
  ObservedEndWindows(standardEndHour)
  \cup {[method |-> "default", endHour |-> e,
         range |-> [startHour |-> e - 100, endHour |-> e]] : e \in ObservedEndHours}

\* getDay() of the dates of a batch: Sunday, Monday, Friday, Saturday
CheckerDaysOfWeek == {0, 1, 5, 6}

\* the dates handed to the checker, each with what the holiday calendar knows
CheckerDates ==
  [day : {1}, dayOfWeek : CheckerDaysOfWeek,
   calendar : {"ordinary", "holiday", "makeup", "unknown"}]

CheckerBatches == UNION {[1..n -> CheckerDates] : n \in 0..MaxDates}

\* commits as git log prints them: the committer time as %H:%M and the day of
\* the week as %w; the last two are not values git prints
LoggedCommits ==
  {[time |-> <<"0", "9", ":", "1", "5">>, day |-> <<"1">>],
   [time |-> <<"0", "9", ":", "4", "5">>, day |-> <<"0">>],
   [time |-> <<"2", "3", ":", "5", "9">>, day |-> <<"6">>],
   [time |-> <<"2", "4", ":", "1", "0">>, day |-> <<"7">>],
   [time |-> <<"9", ":", "5">>, day |-> <<"x">>]}

\* the commits in the log of one repository
RepoLogs == UNION {[1..n -> LoggedCommits] : n \in 0..MaxEvents}

\* the logs of one repository, or of two with at most one commit in the second
SeriesInputs ==
  {<<log>> : log \in RepoLogs}
  \cup {<<log, other>> : log \in RepoLogs, other \in {l \in RepoLogs : Len(l) <= 1}}

\* the output of git log --format=%an <%ae>|%cd|%ai, split at '|'
TimeLines(log) == [i \in 1..Len(log) |-> <<"author", log[i].time, "iso">>]

DayLines(log) == [i \in 1..Len(log) |-> <<"author", log[i].day, "iso">>]

\* the output of git log --format=%cd|%ai --author=..., split at '|'
UserLines(log) == [i \in 1..Len(log) |-> <<log[i].time, "iso">>]

\* the tokens of a command line: the command, two words that are no command,
\* and an option
ArgTokens == {"help", "unknown", "repo", "--self"}

\* argument lists; one with the command help as first operand ends there
ArgLists ==
  {args \in UNION {[1..n -> ArgTokens] : n \in 0..MaxArgs} :
     LET operands == operandsOf(args)
     IN Len(operands) > 1 => operands[1] # "help"}

\* what is found at the paths the words may name, and at the current directory
PathStates == {"missing", "repository", "directory0", "directory1", "directory2"}

FileSystems ==
  {fs \in [{".", "help", "unknown", "repo"} -> PathStates] :
     fs["help"] = "missing" /\ fs["."] # "missing"}

\* what becomes of a selected repository in the collection loop: its analysis
\* succeeds, collect throws, or a step after collect throws
RepoFates == {"success", "collectFails", "parseFails"}

SelectedRepos ==
  UNION {{[i \in 1..n |-> [name |-> i, fate |-> fates[i]]] : fates \in [1..n -> RepoFates]} :
           n \in 1..MaxRepos}

(* ----------------------------- state machine --------------------------- *)

VARIABLES
  phase,              \* "idle", "parsed", "failed", "done"; "input", "analyzed"
  rawData,            \* the GitLogData handed to parseGitData
  customWorkHours,    \* the --hours option
  enableHolidayMode,  \* whether the holiday calendar is consulted
  parsedData,         \* the ParsedGitData
  parseError,         \* the Error parseGitData threw
  workTimeData,       \* the WorkTimeData handed directly to calculate996Index
  result,             \* the Result996
  classifierInput,    \* the aggregates handed to the classifier
  classification,     \* the ProjectClassificationResult
  timezoneInput,      \* the TimezoneData and the hour series of analyzeTimezone
  timezoneResult,     \* the TimezoneAnalysisResult
  overtimeInput,      \* the per-day data handed to the OvertimeAnalyzer
  overtimeResult,     \* the distributions the OvertimeAnalyzer returned
  teamUsers,          \* the UserWorkPattern records handed to analyzeTeam
  teamResult,         \* the TeamAnalysis returned by each run of analyzeTeam
  userInput,          \* the collected data of one contributor
  userPattern,        \* the UserWorkPattern analyzeUser returned
  detectionInput,     \* the first-commit samples and the outcome of the end scan
  detection,          \* the WorkTimeDetectionResult
  checkerInput,       \* the WorkdayChecker, the batch of dates and the question
  checkerResult,      \* how the batch promise settled, and the dates looked up
  seriesInput,        \* the git log lines of each repository
  seriesResult,       \* the collected and the merged time series
  cliArgv,            \* the argument list handed to CLIManager.parse
  cliOutcome,         \* what parse did with it
  selectedRepos,      \* the repositories of MultiExecutor.execute, with their fate
  dataList,           \* the GitLogData collected so far
  repoRecords,        \* the RepoAnalysisRecord of each repository visited
  multiOutcome        \* how execute went on after the collection loop

parserVars == <<rawData, customWorkHours, enableHolidayMode, parsedData, parseError>>

classifierVars == <<classifierInput, classification>>

userVars == <<userInput, userPattern>>

detectionVars == <<detectionInput, detection>>

checkerVars == <<checkerInput, checkerResult>>

seriesVars == <<seriesInput, seriesResult>>

cliVars == <<cliArgv, cliOutcome>>

executorVars == <<selectedRepos, dataList, repoRecords, multiOutcome>>

componentVars ==
  <<userVars, detectionVars, checkerVars, seriesVars, cliVars, executorVars>>

analysisVars ==
  <<timezoneInput, timezoneResult, overtimeInput, overtimeResult, teamUsers, teamResult,
    componentVars>>

vars == <<phase, parserVars, workTimeData, result, classifierVars, analysisVars>>

Nothing == [none |-> TRUE]

NoUser == userInput = Nothing /\ userPattern = Nothing

NoDetection == detectionInput = Nothing /\ detection = Nothing

NoChecker == checkerInput = Nothing /\ checkerResult = Nothing

NoSeries == seriesInput = Nothing /\ seriesResult = Nothing

NoCli == cliArgv = Nothing /\ cliOutcome = Nothing

NoExecutor ==
  /\ selectedRepos = Nothing
  /\ dataList = Nothing
  /\ repoRecords = Nothing
  /\ multiOutcome = Nothing

\* none of the components checked on their own has been asked for
NoComponents == NoUser /\ NoDetection /\ NoChecker /\ NoSeries /\ NoCli /\ NoExecutor

NoTimezone == timezoneInput = Nothing /\ timezoneResult = Nothing

NoOvertime == overtimeInput = Nothing /\ overtimeResult = Nothing

NoTeam == teamUsers = Nothing /\ teamResult = Nothing

\* no timezone, overtime or team analysis has been asked for
NoAnalysis == NoTimezone /\ NoOvertime /\ NoTeam /\ NoComponents

\* the pipeline of a single repository has not been started
NoPipeline ==
  /\ rawData = Nothing
  /\ customWorkHours = NoOverride
  /\ enableHolidayMode = TRUE
  /\ parsedData = Nothing
  /\ parseError = "none"
  /\ workTimeData = Nothing
  /\ result = Nothing
  /\ classifierInput = Nothing
  /\ classification = Nothing

pipelineVars == <<parserVars, workTimeData, result, classifierVars>>

earlierVars ==
  <<timezoneInput, timezoneResult, overtimeInput, overtimeResult, teamUsers, teamResult>>

Init ==
  /\ phase = "idle"
  /\ rawData = Nothing
  /\ customWorkHours = NoOverride
  /\ enableHolidayMode = TRUE
  /\ parsedData = Nothing
  /\ parseError = "none"
  /\ workTimeData = Nothing
  /\ result = Nothing
  /\ classifierInput = Nothing
  /\ classification = Nothing
  /\ NoAnalysis

\* one call of GitParser.parseGitData on the data of a repository
ParseGitData ==
  /\ phase = "idle"
  /\ \E h \in HourInputs, d \in DayInputs, input \in ParseInputs :
       LET raw == RawData(h, d, input.dailyFirstCommits)
           parsed == parseGitData(raw, input.customWorkHours, d.enableHolidayMode,
                                  input.observed)
       IN /\ rawData' = raw
          /\ customWorkHours' = input.customWorkHours
          /\ enableHolidayMode' = d.enableHolidayMode
          /\ IF parsed.threw
             THEN /\ phase' = "failed"
                  /\ parseError' = parsed.error
                  /\ parsedData' = parsedData
             ELSE /\ phase' = "parsed"
                  /\ parseError' = parseError
                  /\ parsedData' = parsed
  /\ UNCHANGED <<workTimeData, result, classifierVars, analysisVars>>

\* GitParser.calculate996Index on the parsed data
Calculate996Index ==
  /\ phase = "parsed"
  /\ LET data == [workHourPl |-> parsedData.workHourPl,
                  workWeekPl |-> parsedData.workWeekPl,
                  hourData |-> parsedData.hourData]
     IN result' = calculate996Index(data)
  /\ phase' = "done"
  /\ UNCHANGED <<parserVars, workTimeData, classifierVars, analysisVars>>

Next == ParseGitData \/ Calculate996Index

Spec == Init /\ [][Next]_vars

\* calculate996Index applied directly to a WorkTimeData
InitCalc ==
  /\ phase = "input"
  /\ workTimeData \in CalcInputs
  /\ rawData = Nothing
  /\ customWorkHours = NoOverride
  /\ enableHolidayMode = TRUE
  /\ parsedData = Nothing
  /\ parseError = "none"
  /\ result = Nothing
  /\ classifierInput = Nothing
  /\ classification = Nothing
  /\ NoAnalysis

CalculateDirect ==
  /\ phase = "input"
  /\ result' = calculate996Index(workTimeData)
  /\ phase' = "done"
  /\ UNCHANGED <<parserVars, workTimeData, classifierVars, analysisVars>>

NextCalc == CalculateDirect

SpecCalc == InitCalc /\ [][NextCalc]_vars

\* ProjectClassifier.classify applied to the aggregates of a repository
InitClassifier ==
  /\ phase = "input"
  /\ classifierInput \in ClassifierInputs
  /\ classification = Nothing
  /\ rawData = Nothing
  /\ customWorkHours = NoOverride
  /\ enableHolidayMode = TRUE
  /\ parsedData = Nothing
  /\ parseError = "none"
  /\ workTimeData = Nothing
  /\ result = Nothing
  /\ NoAnalysis

Classify ==
  /\ phase = "input"
  /\ classification' = classify(classifierInput)
  /\ phase' = "classified"
  /\ UNCHANGED <<parserVars, workTimeData, result, classifierInput, analysisVars>>

NextClassifier == Classify

SpecClassifier == InitClassifier /\ [][NextClassifier]_vars

\* TimezoneAnalyzer.analyzeTimezone applied to the timezone distribution and the
\* hour series of a repository
InitTimezone ==
  /\ phase = "input"
  /\ NoComponents
  /\ timezoneInput \in [timezoneData : TimezoneInputs, hourData : TimezoneHourInputs]
  /\ timezoneResult = Nothing
  /\ overtimeInput = Nothing
  /\ overtimeResult = Nothing
  /\ teamUsers = Nothing
  /\ teamResult = Nothing
  /\ rawData = Nothing
  /\ customWorkHours = NoOverride
  /\ enableHolidayMode = TRUE
  /\ parsedData = Nothing
  /\ parseError = "none"
  /\ workTimeData = Nothing
  /\ result = Nothing
  /\ classifierInput = Nothing
  /\ classification = Nothing

AnalyzeTimezone ==
  /\ phase = "input"
  /\ timezoneResult' = analyzeTimezone(timezoneInput.timezoneData, timezoneInput.hourData)
  /\ phase' = "analyzed"
  /\ UNCHANGED <<parserVars, workTimeData, result, classifierVars, timezoneInput,
                 overtimeInput, overtimeResult, teamUsers, teamResult,
                 componentVars>>

NextTimezone == AnalyzeTimezone

SpecTimezone == InitTimezone /\ [][NextTimezone]_vars

\* the OvertimeAnalyzer applied to the per-day data of a repository
InitOvertime ==
  /\ phase = "input"
  /\ NoComponents
  /\ overtimeInput \in OvertimeInputs
  /\ overtimeResult = Nothing
  /\ timezoneInput = Nothing
  /\ timezoneResult = Nothing
  /\ teamUsers = Nothing
  /\ teamResult = Nothing
  /\ rawData = Nothing
  /\ customWorkHours = NoOverride
  /\ enableHolidayMode = TRUE
  /\ parsedData = Nothing
  /\ parseError = "none"
  /\ workTimeData = Nothing
  /\ result = Nothing
  /\ classifierInput = Nothing
  /\ classification = Nothing

OvertimeUnchanged ==
  UNCHANGED <<parserVars, workTimeData, result, classifierVars, timezoneInput,
              timezoneResult, overtimeInput, teamUsers, teamResult, componentVars>>

CalculateWeekdayOvertime ==
  /\ phase = "input"
  /\ overtimeInput.kind = "weekday"
  /\ overtimeResult' = calculateWeekdayOvertime(overtimeInput.dayHourCommits,
                                                overtimeInput.workTime)
  /\ phase' = "analyzed"
  /\ OvertimeUnchanged

CalculateWeekendOvertime ==
  /\ phase = "input"
  /\ overtimeInput.kind = "weekend"
  /\ overtimeResult' = calculateWeekendOvertime(overtimeInput.dailyCommitHours,
                                                overtimeInput.enableHolidayMode,
                                                overtimeInput.checkerThrows)
  /\ phase' = "analyzed"
  /\ OvertimeUnchanged

CalculateLateNightAnalysis ==
  /\ phase = "input"
  /\ overtimeInput.kind = "lateNight"
  /\ overtimeResult' = calculateLateNightAnalysis(DailyLatestCommits(overtimeInput),
                                                  overtimeInput.dailyFirstCommits,
                                                  overtimeInput.workTime,
                                                  overtimeInput.dateRange,
                                                  overtimeInput.enableHolidayMode)
  /\ phase' = "analyzed"
  /\ OvertimeUnchanged

NextOvertime ==
  \/ CalculateWeekdayOvertime
  \/ CalculateWeekendOvertime
  \/ CalculateLateNightAnalysis

SpecOvertime == InitOvertime /\ [][NextOvertime]_vars

\* UserAnalyzer.analyzeTeam applied, once or again, to the analysed contributors
InitTeam ==
  /\ phase = "input"
  /\ NoComponents
  /\ teamUsers \in TeamInputs
  /\ teamResult = <<>>
  /\ timezoneInput = Nothing
  /\ timezoneResult = Nothing
  /\ overtimeInput = Nothing
  /\ overtimeResult = Nothing
  /\ rawData = Nothing
  /\ customWorkHours = NoOverride
  /\ enableHolidayMode = TRUE
  /\ parsedData = Nothing
  /\ parseError = "none"
  /\ workTimeData = Nothing
  /\ result = Nothing
  /\ classifierInput = Nothing
  /\ classification = Nothing

\* a run of analyzeTeam: the levels of the records are updated in place and the
\* TeamAnalysis is returned; a later run gets the same other arguments
AnalyzeTeam ==
  /\ phase \in {"input", "analyzed"}
  /\ Len(teamResult) < MaxRuns
  /\ \E overallIndex \in OverallIndexes :
       /\ teamResult # <<>> => overallIndex = teamResult[1].healthAssessment.overallIndex
       /\ LET analysis == analyzeTeam(teamUsers, 20, Len(teamUsers) + 1, overallIndex)
          IN /\ teamUsers' = analysis.coreContributors
             /\ teamResult' = Append(teamResult, analysis)
  /\ phase' = "analyzed"
  /\ UNCHANGED <<parserVars, workTimeData, result, classifierVars, timezoneInput,
                 timezoneResult, overtimeInput, overtimeResult, componentVars>>

NextTeam == AnalyzeTeam

SpecTeam == InitTeam /\ [][NextTeam]_vars

\* UserAnalyzer.analyzeUser applied to the collected data of one contributor
InitUser ==
  /\ phase = "input"
  /\ userInput \in UserInputs
  /\ userPattern = Nothing
  /\ NoPipeline /\ NoTimezone /\ NoOvertime /\ NoTeam
  /\ NoDetection /\ NoChecker /\ NoSeries /\ NoCli /\ NoExecutor

AnalyzeUser ==
  /\ phase = "input"
  /\ \E observedEndWindow \in ObservedEndWindows(standardEndHourOf(<<>>)) :
       userPattern' = analyzeUserData(userInput, observedEndWindow)
  /\ phase' = "analyzed"
  /\ UNCHANGED <<pipelineVars, earlierVars, userInput, detectionVars, checkerVars,
                 seriesVars, cliVars, executorVars>>

NextUser == AnalyzeUser

SpecUser == InitUser /\ [][NextUser]_vars

\* WorkTimeAnalyzer.detectWorkingHours applied to the first-commit samples of a
\* repository; the backward scan over the hour series returns its window
InitDetection ==
  /\ phase = "input"
  /\ detectionInput \in [dailyFirstCommits : DetectionSamples, observedEndWindow : {Nothing}]
  /\ detection = Nothing
  /\ NoPipeline /\ NoTimezone /\ NoOvertime /\ NoTeam
  /\ NoUser /\ NoChecker /\ NoSeries /\ NoCli /\ NoExecutor

DetectWorkingHours ==
  /\ phase = "input"
  /\ \E observedEndWindow \in
          ScanOutcomes(standardEndHourOf(detectionInput.dailyFirstCommits)) :
       /\ detectionInput' = [detectionInput EXCEPT !.observedEndWindow = observedEndWindow]
       /\ detection' = detectWorkingHours(detectionInput.dailyFirstCommits, observedEndWindow)
  /\ phase' = "analyzed"
  /\ UNCHANGED <<pipelineVars, earlierVars, userVars, checkerVars, seriesVars, cliVars,
                 executorVars>>

NextDetection == DetectWorkingHours

SpecDetection == InitDetection /\ [][NextDetection]_vars

\* a batch of dates handed to a WorkdayChecker that is enabled or not
InitChecker ==
  /\ phase = "input"
  /\ checkerInput \in [enabled : BOOLEAN, dates : CheckerBatches,
                       question : {"isWorkday", "isHoliday"}]
  /\ checkerResult = Nothing
  /\ NoPipeline /\ NoTimezone /\ NoOvertime /\ NoTeam
  /\ NoUser /\ NoDetection /\ NoSeries /\ NoCli /\ NoExecutor

CheckerUnchanged ==
  UNCHANGED <<pipelineVars, earlierVars, userVars, detectionVars, checkerInput,
              seriesVars, cliVars, executorVars>>

IsWorkdayBatch ==
  /\ phase = "input"
  /\ checkerInput.question = "isWorkday"
  /\ checkerResult' = isWorkdayBatch(checkerInput.dates, checkerInput.enabled)
  /\ phase' = "analyzed"
  /\ CheckerUnchanged

IsHolidayBatch ==
  /\ phase = "input"
  /\ checkerInput.question = "isHoliday"
  /\ checkerResult' = isHolidayBatch(checkerInput.dates, checkerInput.enabled)
  /\ phase' = "analyzed"
  /\ CheckerUnchanged

NextChecker == IsWorkdayBatch \/ IsHolidayBatch

SpecChecker == InitChecker /\ [][NextChecker]_vars

\* the time series collected from the logs of the repositories, and their merge
InitSeries ==
  /\ phase = "input"
  /\ seriesInput \in SeriesInputs
  /\ seriesResult = Nothing
  /\ NoPipeline /\ NoTimezone /\ NoOvertime /\ NoTeam
  /\ NoUser /\ NoDetection /\ NoChecker /\ NoCli /\ NoExecutor

SeriesUnchanged ==
  UNCHANGED <<pipelineVars, earlierVars, userVars, detectionVars, checkerVars,
              seriesInput, cliVars, executorVars>>

\* getCommitsByHour, getCommitsByDay and getUserTimeDistribution on every log
CollectSeries ==
  /\ phase = "input"
  /\ seriesResult' =
       [collected |-> [r \in 1..Len(seriesInput) |->
                         [byHour |-> parseTimeData(TimeLines(seriesInput[r]), "half-hour"),
                          byDay |-> parseTimeData(DayLines(seriesInput[r]), "day"),
                          userHours |-> getUserTimeDistribution(UserLines(seriesInput[r]))]],
        merged |-> Nothing]
  /\ phase' = "collected"
  /\ SeriesUnchanged

\* GitDataMerger.merge on the collected data
MergeSeries ==
  /\ phase = "collected"
  /\ seriesResult' = [seriesResult EXCEPT !.merged = merge(seriesResult.collected)]
  /\ phase' = "analyzed"
  /\ SeriesUnchanged

NextSeries == CollectSeries \/ MergeSeries

SpecSeries == InitSeries /\ [][NextSeries]_vars

\* CLIManager.parse on an argument list, in a file system
InitCli ==
  /\ phase = "input"
  /\ cliArgv \in [args : ArgLists, fileSystem : FileSystems]
  /\ cliOutcome = Nothing
  /\ NoPipeline /\ NoTimezone /\ NoOvertime /\ NoTeam
  /\ NoUser /\ NoDetection /\ NoChecker /\ NoSeries /\ NoExecutor

Parse ==
  /\ phase = "input"
  /\ cliOutcome' = parse(cliArgv.args, cliArgv.fileSystem, TRUE)
  /\ phase' = "analyzed"
  /\ UNCHANGED <<pipelineVars, earlierVars, userVars, detectionVars, checkerVars,
                 seriesVars, cliArgv, executorVars>>

NextCli == Parse

SpecCli == InitCli /\ [][NextCli]_vars

\* MultiExecutor.execute from the collection loop on
InitExecutor ==
  /\ phase = "input"
  /\ selectedRepos \in SelectedRepos
  /\ dataList = <<>>
  /\ repoRecords = <<>>
  /\ multiOutcome = Nothing
  /\ NoPipeline /\ NoTimezone /\ NoOvertime /\ NoTeam
  /\ NoUser /\ NoDetection /\ NoChecker /\ NoSeries /\ NoCli

ExecutorUnchanged ==
  UNCHANGED <<pipelineVars, earlierVars, userVars, detectionVars, checkerVars,
              seriesVars, cliVars, selectedRepos>>

\* one pass of the loop: collect pushes the data, the later steps compute the
\* record; a throw is caught and a failed record is pushed
AnalyzeRepository ==
  /\ phase = "input"
  /\ Len(repoRecords) < Len(selectedRepos)
  /\ LET repo == selectedRepos[Len(repoRecords) + 1]
     IN /\ dataList' = IF repo.fate = "collectFails" THEN dataList
                       ELSE Append(dataList, CollectedData(repo))
        /\ repoRecords' = Append(repoRecords,
                                 IF repo.fate = "success" THEN SuccessRecord(repo)
                                 ELSE FailedRecord(repo))
  /\ UNCHANGED <<phase, multiOutcome>>
  /\ ExecutorUnchanged

\* after the loop: the successful data are filtered out and merged, or the
\* run ends because every repository failed
MergeSuccessful ==
  /\ phase = "input"
  /\ Len(repoRecords) = Len(selectedRepos)
  /\ LET successfulData == successfulDataOf(dataList, repoRecords)
     IN multiOutcome' = IF Len(successfulData) = 0
                        THEN [exit |-> "allFailed", merged |-> <<>>]
                        ELSE [exit |-> "none", merged |-> successfulData]
  /\ phase' = "analyzed"
  /\ UNCHANGED <<dataList, repoRecords>>
  /\ ExecutorUnchanged

NextExecutor == AnalyzeRepository \/ MergeSuccessful

SpecExecutor == InitExecutor /\ [][NextExecutor]_vars

(* ------------------------------- properties --------------------------- *)

\* the inputs of the calculator in the current state
CalcData ==
  IF workTimeData # Nothing THEN workTimeData
  ELSE [workHourPl |-> parsedData.workHourPl, workWeekPl |-> parsedData.workWeekPl,
        hourData |-> parsedData.hourData]

NormalCount == CalcData.workHourPl[1]

OvertimeCount == CalcData.workHourPl[2]

WeekdayCount == CalcData.workWeekPl[1]

WeekendCount == CalcData.workWeekPl[2]

\* ceil(a / b) for a >= 0, b > 0
CeilDiv(a, b) == (a + b - 1) \div b

\* round(x + y * n / (m + n)), halves up
Correction(x, y, m, n) == (2 * (x * (m + n) + y * n) + (m + n)) \div (2 * (m + n))

\* ceil(correction / (x + y) * 100)
PrimaryRatio(x, y, m, n) == CeilDiv(100 * Correction(x, y, m, n), x + y)

\* C1: for x + y > 0 and m + n > 0, calculate996Index returns
\* overTimeRadio = ceil(round(x + y*n/(m+n)) / (x+y) * 100) and index996 = 3 *
\* overTimeRadio; x = 0, y = 100, m = 100, n = 100 gives ratio 50, index 150 and
\* the highest tier.
C1_IndexFormula ==
  (phase = "done" /\ NormalCount + OvertimeCount > 0 /\ WeekdayCount + WeekendCount > 0)
  => /\ result.overTimeRadio
          = Num(PrimaryRatio(OvertimeCount, NormalCount, WeekdayCount, WeekendCount))
     /\ result.index996
          = Num(3 * PrimaryRatio(OvertimeCount, NormalCount, WeekdayCount, WeekendCount))
     /\ (OvertimeCount = 0 /\ NormalCount = 100 /\ WeekdayCount = 100 /\ WeekendCount = 100)
        => /\ result.overTimeRadio = Num(50)
           /\ result.index996 = Num(150)
           /\ result.index996Str = 7

DetectedWorkTime == parsedData.detectedWorkTime

HasDetection == phase \in {"parsed", "done"} /\ parsedData # Nothing

\* C2: for every detection result and every hour 0..23, isWorkingHour is true
\* iff startHour <= hour < min(endHour, startHour + 9); at most 9 integer hours
\* are classified as normal.
C2_NormalWindowCapped ==
  HasDetection
  => /\ \A hour \in 0..23 :
          isWorkingHour(Num(hour), DetectedWorkTime)
          <=> /\ DetectedWorkTime.startHour <= hour * 100
              /\ hour * 100 < Min2(DetectedWorkTime.endHour,
                                   DetectedWorkTime.startHour + 900)
     /\ Cardinality({hour \in 0..23 : isWorkingHour(Num(hour), DetectedWorkTime)}) <= 9

\* a bucket with commits whose hour lies after the ninth hour of a longer
\* window, classified by calculateWorkHourPl
C2_Witness ==
  /\ HasDetection
  /\ DetectedWorkTime.endHour > DetectedWorkTime.startHour + 900
  /\ \E i \in 1..Len(parsedData.hourData) :
       /\ parsedData.hourData[i].count > 0
       /\ ParseInt(parsedData.hourData[i].time).v * 100 >= DetectedWorkTime.startHour + 900
       /\ ParseInt(parsedData.hourData[i].time).v * 100 < DetectedWorkTime.endHour
  /\ parsedData.workHourPl[2] > 0

\* C3: after calculateWorkHourPl the normal count plus the overtime count
\* equals the sum of all bucket counts of the series.
C3_Conservation ==
  HasDetection
  => parsedData.workHourPl[1] + parsedData.workHourPl[2] = SumCounts(parsedData.hourData)

C3_Witness ==
  /\ HasDetection
  /\ parsedData.workHourPl[1] > 0
  /\ parsedData.workHourPl[2] > 0
  /\ \E i \in 1..Len(parsedData.hourData) :
       /\ parsedData.hourData[i].count > 0
       /\ ParseInt(parsedData.hourData[i].time).v * 100 < DetectedWorkTime.startHour

\* the number of buckets of the series with any activity
ActiveBuckets(hourData) == Cardinality({i \in 1..Len(hourData) : hourData[i].count > 0})

\* C4: the under-saturation ratio is substituted exactly when the primary
\* ratio is 0 and fewer than 9 buckets of the series have any activity; it is
\* ceil(actual / synthetic * 100) - 100 with synthetic = 9 * (average commits
\* per active hour), it is negative, and the index is 3 times it.
C4_UnderSaturation ==
  (phase = "done" /\ NormalCount + OvertimeCount > 0 /\ WeekdayCount + WeekendCount > 0)
  => LET primary == PrimaryRatio(OvertimeCount, NormalCount, WeekdayCount, WeekendCount)
         active == ActiveBuckets(CalcData.hourData)
         total == NormalCount + OvertimeCount
         substituted == CeilDiv(100 * total * active, 9 * total) - 100
     IN IF primary = 0 /\ active < 9
        THEN /\ result.overTimeRadio = Num(substituted)
             /\ result.overTimeRadio.v < 0
             /\ result.index996 = Num(3 * substituted)
        ELSE result.overTimeRadio.v >= 0

\* C5: with y, m and n fixed, for all x1 <= x2 the index for x2 is greater
\* than or equal to the index for x1.
C5_MonotonicInOvertime ==
  phase = "done"
  => \A x1 \in CommitCounts :
       x1 <= OvertimeCount
       => Geq(result.index996,
              calculate996Index([workTimeData EXCEPT !.workHourPl = <<NormalCount, x1>>,
                                                     !.hourData = CalcHourData(NormalCount, x1)]).index996)

\* the tier the fixed breakpoints give: 1 for index <= 0, ..., 7 for > 130
TierOf(index) == 1 + Cardinality({b \in {0, 21, 48, 63, 100, 130} : index > b})

\* C6: every index value maps to exactly one of 7 tiers with breakpoints
\* <= 0, <= 21, <= 48, <= 63, <= 100, <= 130, > 130; the tier is non-decreasing
\* in the index; all events inside the normal window on weekdays with no
\* weekend events give ratio 0, index 0 and the lowest tier.
C6_Tiers ==
  phase = "done"
  => /\ result.index996Str \in 1..7
     /\ ~result.index996.nan
        => /\ result.index996Str = TierOf(result.index996.v)
           /\ \A lower \in -3..303 :
                lower <= result.index996.v
                => generateDescription(Num(lower)) <= result.index996Str
     /\ (OvertimeCount = 0 /\ WeekendCount = 0 /\ NormalCount > 0 /\ WeekdayCount > 0)
        => /\ result.overTimeRadio = Num(0)
           /\ result.index996 = Num(0)
           /\ result.index996Str = 1

C6_Witness ==
  /\ phase = "done"
  /\ workTimeData # Nothing
  /\ OvertimeCount = 0 /\ WeekendCount = 0 /\ NormalCount > 0 /\ WeekdayCount > 0
  /\ result.index996Str = 1

\* C7: calculate996Index never produces a NaN ratio or index; with x + y = 0
\* or m + n = 0 the result is the neutral zero.
C7_NoNaN ==
  phase = "done"
  => /\ ~result.overTimeRadio.nan
     /\ ~result.index996.nan
     /\ (NormalCount + OvertimeCount = 0 \/ WeekdayCount + WeekendCount = 0)
        => (result.overTimeRadio = Num(0) /\ result.index996 = Num(0))

\* a decimal number: digits with at most one '.' between digits
IsNumber(part) ==
  /\ Len(part) > 0
  /\ \A i \in 1..Len(part) : IsDigit(part[i]) \/ part[i] = "."
  /\ Cardinality({i \in 1..Len(part) : part[i] = "."}) <= 1
  /\ IsDigit(part[1])
  /\ IsDigit(part[Len(part)])

\* the override names a window: two numbers, start in 0..23, end in 0..24,
\* start before end
NamesWindow(text) ==
  LET parts == Split(text, "-")
  IN /\ Len(parts) = 2
     /\ IsNumber(parts[1])
     /\ IsNumber(parts[2])
     /\ ParseFloat(parts[1]).v <= 2300
     /\ ParseFloat(parts[2]).v <= 2400
     /\ ParseFloat(parts[1]).v < ParseFloat(parts[2]).v

\* C8: given an override string, parseGitData either fails with an error and
\* no parsed result (the string is not two '-'-separated numbers, or the hours
\* are out of range or not in order), or returns exactly the given window with
\* confidence 100 and detectionMethod "manual"; it never falls back to the
\* automatic detection.
C8_ManualOverride ==
  (phase # "idle" /\ customWorkHours.given)
  => IF NamesWindow(customWorkHours.text)
     THEN /\ phase \in {"parsed", "done"}
          /\ DetectedWorkTime.startHour = ParseFloat(Split(customWorkHours.text, "-")[1]).v
          /\ DetectedWorkTime.endHour = ParseFloat(Split(customWorkHours.text, "-")[2]).v
          /\ DetectedWorkTime.confidence = 100
          /\ DetectedWorkTime.detectionMethod = "manual"
     ELSE /\ phase = "failed"
          /\ parsedData = Nothing
          /\ parseError # "none"

Classified == phase = "classified"

\* C9 as stated: with at least 50 contributors the classifier returns the
\* community type with confidence min(95, 70 + count / 10), whatever the other
\* dimensions are; 60 contributors give 76.
C9_ContributorRule ==
  (Classified /\ classifierInput.contributors >= 50)
  => /\ classification.projectType = "open_source"
     /\ 10 * classification.confidence = Min2(950, 700 + classifierInput.contributors)
     /\ classifierInput.contributors = 60 => classification.confidence = 76

\* C9 amended: the confidence is min(95, 70 + floor(count / 10)).
C9_ContributorRuleFloor ==
  (Classified /\ classifierInput.contributors >= 50)
  => /\ classification.projectType = "open_source"
     /\ classification.confidence * 10 <= Min2(950, 700 + classifierInput.contributors)
     /\ (classification.confidence + 1) * 10 > Min2(950, 700 + classifierInput.contributors)
     /\ classifierInput.contributors = 60 => classification.confidence = 76

\* 60 contributors, a regular schedule, 30 % weekend commits and evening work
C9_Witness ==
  /\ Classified
  /\ classifierInput.contributors = 60
  /\ classification.dimensions.workTimeRegularity.score = 75
  /\ AtLeastPercent(classification.dimensions.weekendActivity.ratio, 30)
  /\ classification.dimensions.moonlightingPattern.isActive
  /\ classification.confidence = 76

\* C10: the contributor rule is evaluated first, then the regularity rule;
\* with fewer than 50 contributors and a regularity score <= 25 the result is
\* the community type with confidence exactly 90; the weighted score is
\* consulted only when neither rule fires.
C10_RuleOrder ==
  Classified
  => LET count == classifierInput.contributors
         score == classification.dimensions.workTimeRegularity.score
     IN /\ count >= 50 => classification.reasoning.head = "many-contributors"
        /\ (count < 50 /\ score <= 25)
           => /\ classification.projectType = "open_source"
              /\ classification.confidence = 90
              /\ classification.reasoning.head = "no-regularity"
        /\ classification.ossScore # -1 <=> (count < 50 /\ score > 25)

\* fewer than 50 contributors and no regularity, with weekend and evening
\* activity that would have scored
C10_Witness ==
  /\ Classified
  /\ classifierInput.contributors = 49
  /\ classification.dimensions.workTimeRegularity.score = 25
  /\ AtLeastPercent(classification.dimensions.weekendActivity.ratio, 30)
  /\ classification.dimensions.moonlightingPattern.isActive
  /\ classification.confidence = 90

\* C11: when no short-circuit rule fires, the accumulated community score s
\* decides: s >= 60 gives the community type with confidence min(95, 50 + s/2);
\* 40 <= s < 60 gives uncertain with confidence 50; s < 40 gives the
\* organizational type with confidence min(95, 80 - s); every input gets
\* exactly one of the three categories.
C11_WeightedDecision ==
  Classified
  => /\ classification.projectType \in {"open_source", "uncertain", "corporate"}
     /\ classification.ossScore # -1
        => LET s == classification.ossScore
           IN IF s >= 60
              THEN /\ classification.projectType = "open_source"
                   /\ 2 * classification.confidence = Min2(190, 100 + s)
              ELSE IF s >= 40
              THEN /\ classification.projectType = "uncertain"
                   /\ classification.confidence = 50
              ELSE /\ classification.projectType = "corporate"
                   /\ classification.confidence = Min2(95, 80 - s)

\* a weighted decision exactly on the community threshold
C11_Witness ==
  /\ Classified
  /\ classification.ossScore = 60
  /\ classification.projectType = "open_source"
  /\ classification.confidence = 80

\* the reasons the dimensions of the current classification contribute
ContributedReasons ==
  regularityReason(classification.dimensions.workTimeRegularity)
  \o contributorsReason(classification.dimensions.contributorsCount)
  \o weekendReason(classification.dimensions.weekendActivity)
  \o moonlightingReason(classification.dimensions.moonlightingPattern)

\* C12: every dimension that contributed points to the decision, or the
\* short-circuit rule that fired, appears in the returned reasoning, whichever
\* category is returned.
C12_ReasoningTrail ==
  Classified
  => IF classification.ossScore = -1
     THEN classification.reasoning.head \in {"many-contributors", "no-regularity"}
     ELSE \A i \in 1..Len(ContributedReasons) :
            \E j \in 1..Len(classification.reasoning.reasons) :
              classification.reasoning.reasons[j] = ContributedReasons[i]

TimezoneAnalyzed == phase = "analyzed" /\ timezoneResult # Nothing

\* the largest count of an offset of the distribution, 0 without offsets
DominantCount(data) ==
  IF Len(data.timezones) = 0 THEN 0
  ELSE CHOOSE c \in {data.timezones[i].count : i \in 1..Len(data.timezones)} :
         \A i \in 1..Len(data.timezones) : data.timezones[i].count <= c

\* the count of hour h of the series: the buckets whose label starts with h
HourCount(hourData, h) ==
  SumCounts(SelectSeq(hourData, LAMBDA item : SubSeq(item.time, 1, 2) = Pad2(h)))

\* the sum of the 5 consecutive hours from `start`, indices modulo 24
FiveHourSum(hourData, start) ==
  HourCount(hourData, start % 24) + HourCount(hourData, (start + 1) % 24)
  + HourCount(hourData, (start + 2) % 24) + HourCount(hourData, (start + 3) % 24)
  + HourCount(hourData, (start + 4) % 24)

\* the smallest of the 24 wrap-around five-hour sums
MinFiveHourSum(hourData) ==
  CHOOSE m \in {FiveHourSum(hourData, s) : s \in 0..23} :
    \A s \in 0..23 : m <= FiveHourSum(hourData, s)

\* C13: with total > 0, isCrossTimezone is true iff the offset diversity
\* (1 - dominant count / total) is >= 1 % or the sleep-window ratio is >= 1 %;
\* with zero commits the flag is false.
C13_CrossTimezoneFlag ==
  TimezoneAnalyzed
  => LET data == timezoneInput.timezoneData
         total == data.totalCommits
         sleep == timezoneResult.sleepPeriodRatio
     IN IF total = 0 THEN ~timezoneResult.isCrossTimezone
        ELSE timezoneResult.isCrossTimezone
             <=> \/ 100 * (total - DominantCount(data)) >= total
                 \/ 100 * sleep.num >= sleep.den

\* one offset only, and a sleep window holding exactly 1 % of the commits
C13_Witness ==
  /\ TimezoneAnalyzed
  /\ Len(timezoneInput.timezoneData.timezones) = 1
  /\ 100 * timezoneResult.sleepPeriodRatio.num = timezoneResult.sleepPeriodRatio.den
  /\ timezoneResult.sleepPeriodRatio.num > 0
  /\ timezoneResult.isCrossTimezone

\* C14: the sleep ratio is the minimum over the 24 wrap-around start hours of
\* the sum of 5 consecutive hours of the aggregated 24-slot histogram, divided
\* by the total count; it is 0 when the total is 0.
C14_SleepRatio ==
  (TimezoneAnalyzed /\ timezoneInput.timezoneData.totalCommits > 0)
  => LET hourData == timezoneInput.hourData
         total == SumCounts(hourData)
         sleep == timezoneResult.sleepPeriodRatio
     IN IF total = 0 THEN sleep.num = 0
        ELSE sleep.num * total = MinFiveHourSum(hourData) * sleep.den

\* a half-hour series whose emptiest window wraps around midnight
C14_Witness ==
  /\ TimezoneAnalyzed
  /\ timezoneInput.timezoneData.totalCommits > 0
  /\ Len(timezoneInput.hourData) = 48
  /\ SumCounts(timezoneInput.hourData) > 0
  /\ \A s \in 0..19 :
       FiveHourSum(timezoneInput.hourData, s) > MinFiveHourSum(timezoneInput.hourData)
  /\ timezoneResult.sleepPeriodRatio.num = MinFiveHourSum(timezoneInput.hourData)

WeekendOvertimeDone ==
  phase = "analyzed" /\ overtimeInput # Nothing /\ overtimeInput.kind = "weekend"

\* the classification of a day of the input as a non-workday: the holiday-aware
\* check, the plain Saturday / Sunday when the check is off or unavailable
NonWorkday(entry) ==
  LET date == entry.date
      weekend == date.dayOfWeek \in {0, 6}
  IN IF overtimeInput.checkerThrows \/ ~overtimeInput.enableHolidayMode THEN weekend
     ELSE CASE date.calendar = "holiday" -> TRUE
            [] date.calendar = "makeup" -> FALSE
            [] OTHER -> weekend

\* the entries of the input classified as non-workdays
NonWorkdays ==
  {i \in 1..Len(overtimeInput.dailyCommitHours) :
     NonWorkday(overtimeInput.dailyCommitHours[i])}

C16_SeparateTallies ==
  WeekendOvertimeDone
  => LET days == overtimeInput.dailyCommitHours
     IN /\ overtimeResult.saturdayDays
             = Cardinality({i \in NonWorkdays : days[i].date.dayOfWeek = 6})
        /\ overtimeResult.sundayDays
             = Cardinality({i \in NonWorkdays : days[i].date.dayOfWeek = 0})

LateNightDone ==
  phase = "analyzed" /\ overtimeInput # Nothing /\ overtimeInput.kind = "lateNight"

\* the clock minute (0..1439) of the latest event of a day's record
ClockMinute(record) == record.minutesFromMidnight % (24 * 60)

\* the number of days of the records whose latest event is in [from, to),
\* both in minutes of the clock
DaysInBand(records, from, to) ==
  Cardinality({i \in 1..Len(records) :
                 ClockMinute(records[i]) >= from /\ ClockMinute(records[i]) < to})

\* C17: for the collector's per-day latest-commit records, merged or not, each
\* day is counted by the clock time of its latest event in at most one of
\* evening [endHour, 21:00), late [21:00, 23:00), midnight [23:00, 24:00) and
\* dawn [00:00, 06:00) - a latest event before 06:00 in dawn, not in midnight -
\* and the midnight days are the days counted in midnight or dawn.
C17_LateNightBands ==
  LateNightDone
  => LET records == DailyLatestCommits(overtimeInput)
         endMinute == (overtimeInput.workTime.endHour * 60) \div 100
         r == overtimeResult
     IN /\ r.evening = DaysInBand(records, endMinute, 21 * 60)
        /\ r.lateNight = DaysInBand(records, 21 * 60, 23 * 60)
        /\ r.midnight = DaysInBand(records, 23 * 60, 24 * 60)
        /\ r.dawn = DaysInBand(records, 0, 6 * 60)
        /\ r.midnightDays = r.midnight + r.dawn
        /\ r.evening + r.lateNight + r.midnight + r.dawn <= Len(records)

WeekdayOvertimeDone ==
  phase = "analyzed" /\ overtimeInput # Nothing /\ overtimeInput.kind = "weekday"

\* the commits of the entries of weekday d at or after the hour endHour (in
\* hundredths, possibly fractional)
LateCommits(dayHourCommits, d, endHour) ==
  SumCounts(SelectSeq(dayHourCommits,
                      LAMBDA commit : commit.weekday = d /\ 100 * commit.hour >= endHour))

\* C18: each weekday Monday-Friday gets the sum of the counts of its entries
\* with hour >= ceil(endHour), weekend entries and earlier hours add nothing;
\* peakCount is the largest of the five sums and peakDay the first weekday in
\* Monday-to-Friday order that attains it.
C18_WeekdayOvertime ==
  WeekdayOvertimeDone
  => LET commits == overtimeInput.dayHourCommits
         sum == [d \in 1..5 |-> LateCommits(commits, d, overtimeInput.workTime.endHour)]
         r == overtimeResult
     IN /\ <<r.monday, r.tuesday, r.wednesday, r.thursday, r.friday>> = sum
        /\ \A d \in 1..5 : r.peakCount >= sum[d]
        /\ \E d \in 1..5 :
             /\ r.peakDay = dayNames[d]
             /\ sum[d] = r.peakCount
             /\ \A e \in 1..(d - 1) : sum[e] < r.peakCount

\* Monday and Friday tie for the peak, an 18 o'clock entry lies before the end
\* of an 18:30 day and a Saturday entry is in the input
C18_Witness ==
  /\ WeekdayOvertimeDone
  /\ overtimeInput.workTime.endHour = 1850
  /\ \E i \in 1..Len(overtimeInput.dayHourCommits) :
       /\ overtimeInput.dayHourCommits[i].weekday = 1
       /\ overtimeInput.dayHourCommits[i].hour = 18
  /\ \E i \in 1..Len(overtimeInput.dayHourCommits) :
       overtimeInput.dayHourCommits[i].weekday = 6
  /\ overtimeResult.monday = overtimeResult.friday
  /\ overtimeResult.monday > overtimeResult.tuesday
  /\ overtimeResult.peakDay = "monday"
  /\ overtimeResult.peakCount > 0

TeamAnalyzed == phase = "analyzed" /\ teamUsers # Nothing /\ Len(teamResult) > 0

\* the baseline of a team, times 100: the 50th percentile of the end hours (the
\* middle one, or the mean of the two middle ones), 18 o'clock without any
Baseline(users) ==
  LET ends == SortAscending([i \in 1..Len(users) |-> users[i].workingHours.endHour])
      n == Len(ends)
  IN IF n = 0 THEN 180000
     ELSE IF n % 2 = 1 THEN 100 * ends[(n + 1) \div 2]
     ELSE 50 * (ends[n \div 2] + ends[n \div 2 + 1])

\* the authors of a list of contributors
Authors(list) == {list[i].author : i \in 1..Len(list)}

C20_SecondRunSame ==
  (TeamAnalyzed /\ Len(teamResult) >= 2)
  => \A k \in 2..Len(teamResult) :
       /\ teamResult[k].baselineEndHour = teamResult[1].baselineEndHour
       /\ teamResult[k].baselineEndHour = Baseline(teamUsers)
       /\ teamResult[k].coreContributors = teamResult[1].coreContributors
       /\ teamResult[k].distribution = teamResult[1].distribution

\* two runs on a team whose first run moved a contributor to another tier than
\* the one analyzeUser gave it against 18 o'clock
C20_Witness ==
  /\ TeamAnalyzed
  /\ Len(teamResult) = 2
  /\ teamResult[1].baselineEndHour # 180000
  /\ \E i \in 1..Len(teamUsers) :
       teamUsers[i].intensityLevel
         # analyzeUser(teamUsers[i].author, teamUsers[i].workingHours.endHour,
                       teamUsers[i].index996).intensityLevel

\* the median of the contributors' indices, times 100
MedianIndex(users) ==
  LET sorted == SortAscending([i \in 1..Len(users) |-> users[i].index996])
      n == Len(sorted)
  IN IF n % 2 = 1 THEN 100 * sorted[(n + 1) \div 2]
     ELSE 50 * (sorted[n \div 2] + sorted[n \div 2 + 1])

\* the heavy group is non-empty and under 30 % of the contributors
FewHeavy(users) ==
  LET heavy == Cardinality({i \in 1..Len(users) : users[i].intensityLevel = "heavy"})
  IN heavy > 0 /\ 100 * heavy < 30 * Len(users)

\* a warning is set in the health assessment of the last run
WarningSet ==
  LET warning == teamResult[Len(teamResult)].healthAssessment.warning
  IN warning.heavyMembers \/ warning.indexGap

OverallIndex == teamResult[Len(teamResult)].healthAssessment.overallIndex

\* C21 as stated: a warning is set iff the heavy group is non-empty and under
\* 30 % of the contributors, or the project index and the team median differ by
\* more than 20 points in either direction.
C21_WarningEitherDirection ==
  TeamAnalyzed
  => (WarningSet
      <=> \/ FewHeavy(teamUsers)
          \/ 100 * OverallIndex - MedianIndex(teamUsers) > 2000
          \/ MedianIndex(teamUsers) - 100 * OverallIndex > 2000)

\* C21 amended: a warning is set iff the heavy group is non-empty and under
\* 30 % of the contributors, or the project index is more than 20 points above
\* the team median.
C21_Warning ==
  TeamAnalyzed
  => (WarningSet
      <=> \/ FewHeavy(teamUsers)
          \/ 100 * OverallIndex - MedianIndex(teamUsers) > 2000)

\* one heavy contributor of four and the project index exactly 20 points above
\* the median: the warning is set by the heavy group alone
C21_Witness ==
  /\ TeamAnalyzed
  /\ FewHeavy(teamUsers)
  /\ 100 * OverallIndex - MedianIndex(teamUsers) = 2000
  /\ WarningSet

UserAnalyzed == phase = "analyzed" /\ userPattern # Nothing

\* the WorkTimeData the project pipeline builds from the contributor's series
\* and work window
ProjectWorkTimeData ==
  [workHourPl |-> calculateWorkHourPl(userInput.timeDistribution, userPattern.workingHours),
   workWeekPl |-> calculateWorkWeekPlBasic(userInput.dayDistribution),
   hourData |-> userInput.timeDistribution]

\* the WorkTimeData analyzeUser built for the contributor
UserWorkTimeData ==
  buildWorkTimeData(userInput.timeDistribution, userInput.dayDistribution,
                    userPattern.workingHours.startHour, userPattern.workingHours.endHour)

\* C22: the per-contributor split of the hour buckets into normal and overtime
\* is the one isWorkingHour makes, nine-hour cap included, so that the
\* contributor's normal count, overtime count and index are those of the
\* project pipeline on the same series and work window
C22_SameSplit ==
  UserAnalyzed
  => /\ UserWorkTimeData.workHourPl = ProjectWorkTimeData.workHourPl
     /\ userPattern.index996 = calculate996Index(ProjectWorkTimeData).index996

\* at least 10 days of samples, or at least 20 samples
EnoughSamples(samples) == Len(samples) >= 10 \/ Len(samples) >= 20

\* twice the median of the minutes of the samples, from the order statistics
MedianOfSamples(samples) ==
  LET n == Len(samples)
      sorted == SortAscending([i \in 1..n |-> samples[i].minutesFromMidnight])
  IN IF n % 2 = 1 THEN 2 * sorted[(n + 1) \div 2]
     ELSE sorted[n \div 2] + sorted[n \div 2 + 1]

\* C23: a contributor's median start time is reported exactly when there are
\* enough first-commit samples and then is their median, the median end time
\* exactly when there are enough last-commit samples; otherwise the property
\* is absent from the result
C23_MediansOnlyWithEnoughData ==
  UserAnalyzed
  => LET avgTimes == userPattern.avgTimes
     IN /\ "avgStartTimeMedian" \in DOMAIN avgTimes
           <=> EnoughSamples(userInput.dailyFirstCommits)
        /\ "avgEndTimeMedian" \in DOMAIN avgTimes
           <=> EnoughSamples(userInput.dailyLatestCommits)
        /\ "avgStartTimeMedian" \in DOMAIN avgTimes
           => avgTimes["avgStartTimeMedian"] = MedianOfSamples(userInput.dailyFirstCommits)
        /\ "avgEndTimeMedian" \in DOMAIN avgTimes
           => avgTimes["avgEndTimeMedian"] = MedianOfSamples(userInput.dailyLatestCommits)

\* ten days of first commits and nine days of last commits: the start median
\* is reported and the end median is absent
C23_Witness ==
  /\ UserAnalyzed
  /\ Len(userInput.dailyFirstCommits) = 10
  /\ Len(userInput.dailyLatestCommits) = 9
  /\ "avgStartTimeMedian" \in DOMAIN userPattern.avgTimes
  /\ "avgEndTimeMedian" \notin DOMAIN userPattern.avgTimes

Detected == phase = "analyzed" /\ detection # Nothing

\* the minutes of the valid samples of the detection at hand
ValidMinutes ==
  LET valid == filterValidDailyCommits(detectionInput.dailyFirstCommits)
  IN [i \in 1..Len(valid) |-> valid[i].minutesFromMidnight]

\* the percentile (0..100) of the valid minutes by linear interpolation between
\* adjacent order statistics, as calculatePercentile computes it, in whole minutes
InterpolatedPercentile(percentile) ==
  calculatePercentile(SortAscending(ValidMinutes), percentile) \div 100

\* the order statistic of rank index (0 = smallest) of the valid minutes:
\* the value with at most `index` samples below it and more than `index`
\* samples not above it
OrderStatistic(index) ==
  CHOOSE v \in {ValidMinutes[i] : i \in 1..Len(ValidMinutes)} :
    /\ Cardinality({i \in 1..Len(ValidMinutes) : ValidMinutes[i] < v}) <= index
    /\ Cardinality({i \in 1..Len(ValidMinutes) : ValidMinutes[i] <= v}) > index

\* the range of half-hour marks detectWorkingHours reports for a lower and an
\* upper estimate of the start, in minutes
RangeOf(lowerMinutes, upperMinutes) == buildStartHourRange(lowerMinutes, upperMinutes)

\* C24 as stated: with valid samples, the start range is derived from the 10th
\* and 20th percentiles computed by linear interpolation between adjacent
\* order statistics
C24_InterpolatedPercentiles ==
  (Detected /\ Len(ValidMinutes) > 0)
  => detection.startHourRange
       = RangeOf(InterpolatedPercentile(10), InterpolatedPercentile(20))

\* C24, amended: with n valid samples, the start range is derived from the
\* order statistics of rank floor((n - 1) / 10) and floor((n - 1) / 5) of the
\* valid minutes, without interpolation
C24_OrderStatistics ==
  (Detected /\ Len(ValidMinutes) > 0)
  => LET n == Len(ValidMinutes)
     IN detection.startHourRange
          = RangeOf(OrderStatistic((n - 1) \div 10), OrderStatistic((n - 1) \div 5))

\* eleven valid samples, one at 08:50 and ten at 11:40: the 10th percentile is
\* the second smallest sample, and the range starts at 11:30
C24_Witness ==
  /\ Detected
  /\ Len(ValidMinutes) = 11
  /\ OrderStatistic(0) = 530
  /\ OrderStatistic(1) = 700
  /\ detection.startHourRange.startHour = 1150

\* the outcome of the backward scan of the detection at hand
Scan == detectionInput.observedEndWindow

\* the standard-shift end hour for the detected start, in hundredths of an hour
StandardShift == IF detection.startHour + 900 <= 2400 THEN detection.startHour + 900 ELSE 2400

\* C25: the final end hour and its range are the ones of the backward scan
\* exactly when the scan reports 'backward-threshold'; otherwise they are
\* min(startHour + 9, 24) and the range derived from it; endDetectionMethod
\* names the method that produced the final end hour
C25_EndHourSelection ==
  Detected
  => IF Scan.method = "backward-threshold"
     THEN /\ detection.endHour = Scan.endHour
          /\ detection.endHourRange = Scan.range
          /\ detection.endDetectionMethod = "backward-threshold"
     ELSE /\ detection.endHour = StandardShift
          /\ detection.endHourRange = buildEndHourRange(detection.startHour, StandardShift)
          /\ detection.endDetectionMethod = "standard-shift"

\* the scan found no breakpoint and returned 21:00, the start is 08:30: the end
\* hour is the standard 17:30, not the one of the scan
C25_Witness ==
  /\ Detected
  /\ Scan.method = "default"
  /\ Scan.endHour = 2100
  /\ detection.startHour = 850
  /\ detection.endHour = 1750
  /\ detection.endDetectionMethod = "standard-shift"

\* the scan found a breakpoint at 21:00, more than nine hours after the start
C25_WitnessObserved ==
  /\ Detected
  /\ Scan.method = "backward-threshold"
  /\ detection.startHour = 850
  /\ detection.endHour = 2100

\* C29: the reported start range lies within 05:00-12:00, its bounds are
\* multiples of 30 minutes, its lower bound is startHour, and it is more than
\* 0 and at most 60 minutes wide; without valid samples it is 09:00-09:30 with
\* detectionMethod 'default' and confidence 0
C29_StartRange ==
  Detected
  => LET range == detection.startHourRange
     IN /\ range.startHour >= 500 /\ range.endHour <= 1200
        /\ range.startHour % 50 = 0 /\ range.endHour % 50 = 0
        /\ range.startHour = detection.startHour
        /\ range.endHour - range.startHour > 0
        /\ range.endHour - range.startHour <= 100
        /\ Len(ValidMinutes) = 0
           => /\ range = [startHour |-> 900, endHour |-> 950]
              /\ detection.detectionMethod = "default"
              /\ detection.confidence = 0

Checked == phase = "analyzed" /\ checkerResult # Nothing

\* the fixed weekday rule for the question asked: Monday to Friday are
\* workdays, Saturday and Sunday are holidays
FixedRule(date) ==
  IF checkerInput.question = "isWorkday"
  THEN date.dayOfWeek \in 1..5
  ELSE date.dayOfWeek \in {0, 6}

\* what the holiday calendar answers for the question asked
Oracle(date) ==
  IF checkerInput.question = "isWorkday" THEN calendarIsWorkday(date)
  ELSE calendarIsHoliday(date)

\* C26: a batch of the WorkdayChecker is fulfilled with one boolean per date
\* and never rejected; a date the calendar throws for gets the fixed weekday
\* rule and the other dates keep the calendar's answer; a disabled checker
\* never consults the calendar and answers every date by the fixed rule
C26_NeverRejects ==
  Checked
  => LET dates == checkerInput.dates
         value == checkerResult.value
     IN /\ checkerResult.state = "fulfilled"
        /\ Len(value) = Len(dates)
        /\ \A i \in 1..Len(dates) :
             /\ value[i] \in BOOLEAN
             /\ value[i] = IF ~checkerInput.enabled \/ Oracle(dates[i]).throws
                           THEN FixedRule(dates[i])
                           ELSE Oracle(dates[i]).value
        /\ ~checkerInput.enabled => checkerResult.consulted = {}

\* an enabled checker, a batch of a date the calendar throws for and a Saturday
\* that is a make-up workday: the first is answered by the fixed rule, the
\* second by the calendar
C26_Witness ==
  /\ Checked
  /\ checkerInput.enabled
  /\ checkerInput.question = "isWorkday"
  /\ Len(checkerInput.dates) = 2
  /\ checkerInput.dates[1].calendar = "unknown"
  /\ checkerInput.dates[1].dayOfWeek = 1
  /\ checkerInput.dates[2].calendar = "makeup"
  /\ checkerInput.dates[2].dayOfWeek = 6
  /\ checkerResult.value = <<TRUE, TRUE>>

SeriesCollected == phase \in {"collected", "analyzed"} /\ seriesResult # Nothing

\* the bucket of a 48 half-hour series a logged time falls in, 0 for none
HalfHourBucket(time) ==
  IF MatchesHourMinute(time) /\ DigitVal(time[1]) * 10 + DigitVal(time[2]) < 24
  THEN 2 * (DigitVal(time[1]) * 10 + DigitVal(time[2]))
       + (IF DigitVal(time[4]) >= 3 THEN 2 ELSE 1)
  ELSE 0

\* the series has the n buckets labelled label(1) .. label(n), in this order
HasBuckets(series, n, label(_)) ==
  /\ Len(series) = n
  /\ \A k \in 1..n : series[k].time = label(k) /\ series[k].count \in Nat

HasHalfHours(series) == HasBuckets(series, 48, LAMBDA k : HalfHourLabel(k - 1))

HasHours(series) == HasBuckets(series, 24, LAMBDA k : Pad2(k - 1))

HasDays(series) == HasBuckets(series, 7, LAMBDA k : <<Digit(k)>>)

\* C27: whatever the logged commits, none included, the collected time-of-day
\* series of a repository has the 48 half-hour buckets, the per-contributor
\* series the 24 hour buckets and the day series the 7 day buckets, each
\* label once, with 0 where no commit fell; the merged series have the 48
\* and the 7 buckets as well
C27_FullSeries ==
  SeriesCollected
  => /\ \A r \in 1..Len(seriesInput) :
          LET data == seriesResult.collected[r]
              log == seriesInput[r]
          IN /\ HasHalfHours(data.byHour)
             /\ HasHours(data.userHours)
             /\ HasDays(data.byDay)
             /\ \A k \in 1..48 :
                  data.byHour[k].count
                    = Cardinality({i \in 1..Len(log) : HalfHourBucket(log[i].time) = k})
             /\ \A h \in 1..24 :
                  data.userHours[h].count
                    = Cardinality({i \in 1..Len(log) :
                                     HalfHourBucket(log[i].time) \in {2 * h - 1, 2 * h}})
     /\ phase = "analyzed"
        => /\ HasHalfHours(seriesResult.merged.byHour)
           /\ HasDays(seriesResult.merged.byDay)

\* two repositories, one without commits and one with a commit at 09:45 on a
\* Sunday: the merged series are complete and hold the commit at 09:30 and day 7
C27_Witness ==
  /\ phase = "analyzed"
  /\ Len(seriesInput) = 2
  /\ Len(seriesInput[1]) = 0
  /\ Len(seriesInput[2]) = 1
  /\ seriesInput[2][1].day = <<"0">>
  /\ seriesResult.merged.byHour[20] = [time |-> HalfHourLabel(19), count |-> 1]
  /\ seriesResult.merged.byDay[7].count = 1
  /\ SumCounts(seriesResult.merged.byHour) = 1

Parsed == phase = "analyzed" /\ cliOutcome # Nothing

\* C28: an argument list whose first token is a word that is no registered
\* command is answered with the error "unknown command '<token>'" (in the
\* program's language) and exit status 1,
\* and no analysis of the token as a path is started
C28_UnknownCommand ==
  (Parsed /\ Len(cliArgv.args) > 0
   /\ cliArgv.args[1] \notin RegisteredCommands \cup FlagOptions)
  => /\ cliOutcome.errorMessage = <<"unknown command", cliArgv.args[1]>>
     /\ cliOutcome.exitStatus = 1
     /\ cliOutcome.analysis = NoAnalysisStarted

Executed == phase = "analyzed" /\ multiOutcome # Nothing

\* the data of the repositories whose record says 'success', in selection order
DataOfSuccessful ==
  LET successful == SelectSeq(repoRecords, LAMBDA record : record.status = "success")
  IN [k \in 1..Len(successful) |-> successful[k].data]

\* C30: whatever repositories fail, the list handed to GitDataMerger.merge is
\* the collected data of the repositories with status 'success', once each in
\* selection order, and the run ends with 'all repositories failed' only when
\* none succeeded
C30_MergesSuccessful ==
  Executed
  => /\ multiOutcome.exit = "allFailed" <=> Len(DataOfSuccessful) = 0
     /\ multiOutcome.exit = "none" => multiOutcome.merged = DataOfSuccessful

====
